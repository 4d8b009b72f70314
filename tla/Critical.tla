------------------------------ MODULE Critical ------------------------------
(* Critical sections (critical.cpp): nested scopes of a task and of a handler *)
(* that may interrupt it wherever interrupts are on.  nestingLevel and flags  *)
(* are shared by all of them; the user supplies the functions that disable    *)
(* interrupts, returning how they were, and that restore them.                *)
EXTENDS Integers

CONSTANTS MaxDepth      \* bound on nested scopes

VARIABLES hw, installed, nestingLevel, flags, active, frame
criticalVars == <<hw, installed, nestingLevel, flags, active, frame>>

Context == {"task", "handler"}
Start == [pc |-> "body", depth |-> 0, reg |-> "on", before |-> "on"]

CriticalInit ==
  /\ hw = "on" /\ installed = FALSE /\ nestingLevel = 0 /\ flags = "on"
  /\ active = "task" /\ frame = [who \in Context |-> Start]

mine == frame[active]
At(here, next) == mine.pc = here /\ frame' = [frame EXCEPT ![active].pc = next]

setInterruptsED ==
  /\ active = "task" /\ mine.pc = "body" /\ mine.depth = 0 /\ ~installed /\ installed' = TRUE
  /\ UNCHANGED <<hw, nestingLevel, flags, active, frame>>

(* The application switches interrupts itself, outside of any scope.          *)
SwitchInterrupts(m) ==
  /\ active = "task" /\ mine.pc = "body" /\ mine.depth = 0 /\ m # hw /\ hw' = m
  /\ UNCHANGED <<installed, nestingLevel, flags, active, frame>>

(* enter(): the level is read, then the disabler called, then its result kept.*)
Enter ==
  /\ mine.pc = "body" /\ mine.depth < MaxDepth
  /\ frame' = [frame EXCEPT ![active].pc = IF nestingLevel = 0 /\ installed THEN "disable" ELSE "bump",
                            ![active].before = IF mine.depth = 0 THEN hw ELSE @]
  /\ UNCHANGED <<hw, installed, nestingLevel, flags, active>>

Disable ==
  /\ mine.pc = "disable" /\ hw' = "off"
  /\ frame' = [frame EXCEPT ![active].pc = "store", ![active].reg = hw]
  /\ UNCHANGED <<installed, nestingLevel, flags, active>>

Store ==
  /\ At("store", "bump") /\ flags' = mine.reg
  /\ UNCHANGED <<hw, installed, nestingLevel, active>>

Bump ==
  /\ mine.pc = "bump" /\ nestingLevel' = nestingLevel + 1
  /\ frame' = [frame EXCEPT ![active].pc = "body", ![active].depth = @ + 1]
  /\ UNCHANGED <<hw, installed, flags, active>>

(* Mutant: every exit restores, not only the outermost one.                   *)
outermostAny(level) == installed
outermost(level) == level = 0 /\ installed

(* exit(): the level, then the restorer of the outermost scope.               *)
Exit ==
  /\ mine.pc = "body" /\ mine.depth > 0 /\ nestingLevel > 0
  /\ nestingLevel' = nestingLevel - 1
  /\ frame' = [frame EXCEPT ![active].pc = IF outermost(nestingLevel - 1) THEN "restore" ELSE "body",
                            ![active].depth = @ - 1]
  /\ UNCHANGED <<hw, installed, flags, active>>

Restore ==
  /\ At("restore", "body") /\ hw' = flags
  /\ UNCHANGED <<installed, nestingLevel, flags, active>>

Interrupt ==
  /\ active = "task" /\ hw = "on" /\ active' = "handler"
  /\ frame' = [frame EXCEPT !["handler"] = Start]
  /\ UNCHANGED <<hw, installed, nestingLevel, flags>>
Return ==
  /\ active = "handler" /\ mine.pc = "body" /\ mine.depth = 0 /\ active' = "task"
  /\ UNCHANGED <<hw, installed, nestingLevel, flags, frame>>

CriticalNext ==
  \/ setInterruptsED
  \/ Enter \/ Disable \/ Store \/ Bump \/ Exit \/ Restore
  \/ Interrupt \/ Return
  \/ \E m \in {"on", "off"} : SwitchInterrupts(m)
CriticalSpec == CriticalInit /\ [][CriticalNext]_criticalVars
-----------------------------------------------------------------------------
(* Once the two functions are installed, interrupts are off from the entry of *)
(* the outermost scope to its exit, however scopes nest and wherever a        *)
(* handler with scopes of its own came in between; after it they are again    *)
(* as they were before it, off if the application had them off (critical.cpp  *)
(* 13-31).                                                                    *)
SectionsProtect ==
  /\ installed /\ (mine.depth > 0 \/ mine.pc \in {"bump", "store"}) => hw = "off"
  /\ mine.pc = "restore" => flags = mine.before
  /\ nestingLevel = frame["task"].depth + frame["handler"].depth
=============================================================================
