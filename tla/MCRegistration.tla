--------------------------- MODULE MCRegistration ---------------------------
(* Instances of Registration: handlers in one process or one per process.   *)
EXTENDS Registration, TLC

CONSTANTS h1, h2, p1, p2

\* Both handlers share the process that embeds the bot.
OneProcess == (h1 :> p1) @@ (h2 :> p1)

\* One handler in the API process, one in a bot process of its own.
TwoProcesses == (h1 :> p1) @@ (h2 :> p2)

\* Players are interchangeable, and so are the handlers of one process ...
OneProcessSymmetry ==
    {f @@ g : f \in Permutations(Users), g \in Permutations({h1, h2})}

\* ... or the two processes, each with its handler.
TwoProcessesSymmetry ==
    {f @@ g : f \in Permutations(Users),
              g \in {(h1 :> h1) @@ (h2 :> h2) @@ (p1 :> p1) @@ (p2 :> p2),
                     (h1 :> h2) @@ (h2 :> h1) @@ (p1 :> p2) @@ (p2 :> p1)}}

\* The states reached before anybody has written from an outdated copy; the
\* one such a write leads to is checked, and not explored further.
Fresh == ~stale

\* Outdated copies of two processes, uploads aside; sweeps only as long as
\* nobody has come to the waitlist.
EarlySweeps ==
    /\ waitlistEnabled
    /\ \A h \in Handlers : tx[h].pc # "parked"
    /\ sweep.on => \A u \in Users : entry[u] = NoEntry
=============================================================================
