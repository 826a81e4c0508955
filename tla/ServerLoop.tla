------------------------------ MODULE ServerLoop ------------------------------
(***************************************************************************)
(* BackupServer::run and stop (DataBackup/network/server.cpp): one thread  *)
(* accepts connections, starts a worker thread for each, joins the         *)
(* finished ones and, when asked to stop, closes the listener and joins    *)
(* the rest.                                                               *)
(*                                                                         *)
(* A worker is "serving" while handleSession runs, "ended" once that has   *)
(* returned and closed the socket, "finished" once it has set its flag.    *)
(* What a session does in between is the subject of BackupStore; here it   *)
(* ends when its client leaves or, polling the stop flag at least every    *)
(* 100 ms, when the server stops.                                          *)
(***************************************************************************)
EXTENDS Naturals, FiniteSets

CONSTANTS
  Workers,        \* worker threads; finite, more than MaxConnections
  MaxConnections, \* ServerConfig.maxConnections
  MaxQueued,      \* connections the listener can hold before accept
  EarlyStop       \* TRUE: stop() may precede the first statement of run()

ASSUME LoopAssumption ==
  /\ IsFiniteSet(Workers)
  /\ MaxConnections \in Nat \ {0}
  /\ Cardinality(Workers) > MaxConnections
  /\ MaxQueued \in Nat \ {0}
  /\ EarlyStop \in BOOLEAN

VARIABLES
  stopRequested, \* the atomic flag
  asked,         \* stop() has been called for this run
  pc,            \* the thread in run()
  sessions,      \* workers in the sessions vector
  worker,        \* [Workers -> what the thread does]
  queued,        \* connections waiting in the listener
  refused        \* connections sent away at the limit since the last accept

vars == <<stopRequested, asked, pc, sessions, worker, queued, refused>>

Running == {"setup", "top", "polling", "accepting"}

Init ==
  /\ stopRequested = FALSE
  /\ asked = FALSE
  /\ pc = "called"
  /\ sessions = {}
  /\ worker = [w \in Workers |-> "none"]
  /\ queued = 0
  /\ refused = FALSE
-----------------------------------------------------------------------------
\* Other threads and clients.

\* stop(), from a signal handler or another thread.
Stop ==
  /\ pc # "returned"
  /\ EarlyStop \/ pc # "called"
  /\ stopRequested' = TRUE
  /\ asked' = TRUE
  /\ UNCHANGED <<pc, sessions, worker, queued, refused>>

Arrive ==
  /\ pc \in {"top", "polling", "accepting"}
  /\ queued < MaxQueued
  /\ queued' = queued + 1
  /\ UNCHANGED <<stopRequested, asked, pc, sessions, worker, refused>>

\* handleSession returns: the socket is closed.
EndSession(w) ==
  /\ worker[w] = "serving"
  /\ worker' = [worker EXCEPT ![w] = "ended"]
  /\ UNCHANGED <<stopRequested, asked, pc, sessions, queued, refused>>

\* finished->store(true), the worker's last statement.
Finish(w) ==
  /\ worker[w] = "ended"
  /\ worker' = [worker EXCEPT ![w] = "finished"]
  /\ UNCHANGED <<stopRequested, asked, pc, sessions, queued, refused>>
-----------------------------------------------------------------------------
\* The thread in run().

\* run() clears a flag left by an earlier run.
Enter ==
  /\ pc = "called"
  /\ stopRequested' = FALSE
  /\ pc' = "setup"
  /\ UNCHANGED <<asked, sessions, worker, queued, refused>>

\* Configuration, TLS context, bind and listen; any of them may fail.
SetUp ==
  /\ pc = "setup"
  /\ pc' \in {"top", "leaving"}
  /\ UNCHANGED <<stopRequested, asked, sessions, worker, queued, refused>>

Reapable == {w \in sessions : worker[w] = "finished"}

\* Mutant of Top: finished workers are joined only when somebody connects.
TopOnDemand ==
  /\ pc = "top"
  /\ IF stopRequested
       THEN /\ pc' = "leaving"
            /\ UNCHANGED <<sessions, worker>>
       ELSE /\ pc' = "polling"
            /\ sessions' = IF queued > 0 THEN sessions \ Reapable ELSE sessions
            /\ worker' = [w \in Workers |->
                 IF queued > 0 /\ w \in Reapable THEN "none" ELSE worker[w]]
  /\ UNCHANGED <<stopRequested, asked, queued, refused>>

\* The loop condition, and reap(false) joins the finished workers.
Top ==
  /\ pc = "top"
  /\ IF stopRequested
       THEN /\ pc' = "leaving"
            /\ UNCHANGED <<sessions, worker>>
       ELSE /\ pc' = "polling"
            /\ sessions' = sessions \ Reapable
            /\ worker' = [w \in Workers |->
                 IF w \in Reapable THEN "none" ELSE worker[w]]
  /\ UNCHANGED <<stopRequested, asked, queued, refused>>

\* Mutant of Poll: no timeout, so the stop flag waits for a connection.
PollForever ==
  /\ pc = "polling"
  /\ queued > 0
  /\ pc' = IF stopRequested THEN "top" ELSE "accepting"
  /\ UNCHANGED <<stopRequested, asked, sessions, worker, queued, refused>>

\* Mutant of Poll: the connection is taken whether or not one is ready.
PollUnchecked ==
  /\ pc = "polling"
  /\ pc' = IF stopRequested THEN "top" ELSE "accepting"
  /\ UNCHANGED <<stopRequested, asked, sessions, worker, queued, refused>>

\* poll() for at most 100 ms; a listener error leaves the loop.
Poll ==
  /\ pc = "polling"
  /\ \/ pc' = IF queued > 0 /\ ~stopRequested THEN "accepting" ELSE "top"
     \/ pc' = "leaving"
  /\ UNCHANGED <<stopRequested, asked, sessions, worker, queued, refused>>

\* The connection was gone before accept(), or accept() fails for good.
AcceptFails ==
  /\ pc = "accepting"
  /\ \/ /\ queued' \in {queued, queued - 1}
        /\ pc' = "top"
     \/ /\ pc' = "leaving"
        /\ UNCHANGED queued
  /\ UNCHANGED <<stopRequested, asked, sessions, worker, refused>>

\* Mutant of AtLimit: one connection too many.
PastLimit == Cardinality(sessions) > MaxConnections

AtLimit == Cardinality(sessions) >= MaxConnections

Refuse ==
  /\ pc = "accepting"
  /\ AtLimit
  /\ queued' = queued - 1
  /\ refused' = TRUE
  /\ pc' = "top"
  /\ UNCHANGED <<stopRequested, asked, sessions, worker>>

\* A worker starts, or its thread cannot be created and the loop is left.
Accept(w) ==
  /\ pc = "accepting"
  /\ ~AtLimit
  /\ worker[w] = "none"
  /\ queued' = queued - 1
  /\ \/ /\ worker' = [worker EXCEPT ![w] = "serving"]
        /\ sessions' = sessions \cup {w}
        /\ refused' = FALSE
        /\ pc' = "top"
     \/ /\ pc' = "leaving"
        /\ UNCHANGED <<sessions, worker, refused>>
  /\ UNCHANGED <<stopRequested, asked>>

\* The sessions are told to stop and the listener is closed.
Leave ==
  /\ pc = "leaving"
  /\ stopRequested' = TRUE
  /\ queued' = 0
  /\ pc' = "joining"
  /\ UNCHANGED <<asked, sessions, worker, refused>>

\* reap(true) joins the workers one after the other, finished or not.
Join(w) ==
  /\ pc = "joining"
  /\ w \in sessions
  /\ worker[w] = "finished"
  /\ sessions' = sessions \ {w}
  /\ worker' = [worker EXCEPT ![w] = "none"]
  /\ UNCHANGED <<stopRequested, asked, pc, queued, refused>>

\* Mutant of Return: only the finished workers are joined.
ReturnEarly ==
  /\ pc = "joining"
  /\ Reapable = {}
  /\ pc' = "returned"
  /\ UNCHANGED <<stopRequested, asked, sessions, worker, queued, refused>>

Return ==
  /\ pc = "joining"
  /\ sessions = {}
  /\ pc' = "returned"
  /\ UNCHANGED <<stopRequested, asked, sessions, worker, queued, refused>>

\* The owner of the object may call run() again.
Rerun ==
  /\ pc = "returned"
  /\ pc' = "called"
  /\ asked' = FALSE
  /\ refused' = FALSE
  /\ UNCHANGED <<stopRequested, sessions, worker, queued>>
-----------------------------------------------------------------------------
RunStep ==
  \/ Enter \/ SetUp \/ Top \/ Poll \/ AcceptFails \/ Refuse
  \/ \E w \in Workers : Accept(w) \/ Join(w)
  \/ Leave \/ Return

Next ==
  \/ RunStep
  \/ Stop \/ Arrive \/ Rerun
  \/ \E w \in Workers : EndSession(w) \/ Finish(w)

Spec == Init /\ [][Next]_vars

\* The thread in run() and the workers are scheduled.  A session is certain to
\* end only once the flag is set: its client may keep it busy until then.
FairSpec ==
  /\ Spec
  /\ WF_vars(RunStep)
  /\ \A w \in Workers :
       WF_vars(Finish(w)) /\ WF_vars(stopRequested /\ EndSession(w))
-----------------------------------------------------------------------------
TypeOK ==
  /\ stopRequested \in BOOLEAN /\ asked \in BOOLEAN /\ refused \in BOOLEAN
  /\ pc \in Running \cup {"called", "leaving", "joining", "returned"}
  /\ sessions \subseteq Workers
  /\ worker \in [Workers -> {"none", "serving", "ended", "finished"}]
  /\ queued \in 0..MaxQueued

Live == {w \in Workers : worker[w] # "none"}

\* The threads alive are those in the sessions vector, so that joining the
\* vector leaves none behind, and they never exceed the configured limit.
ThreadsAreTracked == Live = sessions /\ Cardinality(Live) <= MaxConnections

\* Once run() has returned no worker uses the server object or its flag:
\* the object may be destroyed.
NoThreadOutlivesRun == pc = "returned" => Live = {}

\* run() blocks until stop(): a stop request makes it return.
StopReturns == asked ~> pc = "returned"

\* A finished session's slot is reclaimed, even while no client connects.
SlotsAreRecycled ==
  \A w \in Workers : worker[w] = "finished" ~> worker[w] = "none"

\* A connection is refused for the limit only while that many sessions are
\* still being handled: workers that have finished do not keep clients out.
RefusedOnlyWhenFull ==
  [][~refused /\ refused' =>
       Cardinality({w \in Workers : worker[w] \in {"serving", "ended"}})
         >= MaxConnections]_vars
=============================================================================
