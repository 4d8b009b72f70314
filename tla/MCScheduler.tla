----------------------------- MODULE MCScheduler -----------------------------
(* Scheduler under several applications of two or three tasks, each using  *)
(* the services whose interplay one of the properties is about.            *)
EXTENDS Scheduler

CONSTANTS t1, t2, t3, d1, d2

(* Two tasks, t1 added first, with the services, data and priorities given.*)
App(uses, immediate, iterations, levels, data) ==
  [tasks |-> {t1, t2}, order |-> <<t1, t2>>, immediate |-> immediate,
   levels |-> levels, iterations |-> iterations, data |-> data, uses |-> uses]

Timed    == App({"time", "enable", "simple"}, {t2}, {2, Periodic}, {0, 1}, {d1})
Ordered  == [App({"simple"}, {}, {Periodic}, {0, 1}, {d1})
               EXCEPT !.tasks = {t1, t2, t3}, !.order = <<t1, t2, t3>>]
Sleepers == App({"queued", "sleep"}, {}, {Periodic}, {0, 1}, {d1, d2})
Removers == App({"remove", "simple"}, {}, {Periodic}, {0}, {d1})
Spreads  == App({"spread", "yield", "priority"}, {}, {Periodic}, {0, 1}, {d1})

Safety == {Timed, Ordered, Sleepers, Removers, Spreads}

Notifiers == App({"queued", "simple"}, {}, {Periodic}, {0}, {d1, d2})
Busy      == App({"time", "queue", "simple"}, {t2}, {Periodic}, {0, 1}, {d1})
Released  == App({"simple", "flags", "release"}, {}, {Periodic}, {0}, {d1})

Nightly   == App({"queued", "sleep"}, {}, {Periodic}, {0, 1}, {d1})

Liveness == {Notifiers, Nightly, Busy, Released}

OneSpread == {App({"spread"}, {}, {Periodic}, {0}, {d1})}
=============================================================================
