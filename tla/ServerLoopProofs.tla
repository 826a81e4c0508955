--------------------------- MODULE ServerLoopProofs ---------------------------
(***************************************************************************)
(* Safety theorems about ServerLoop for any finite pool of workers, any    *)
(* connection limit and any listener backlog, checked by TLAPS.            *)
(***************************************************************************)
EXTENDS ServerLoop, FiniteSetTheorems, TLAPS

\* The loop accepts only what poll() announced.
AcceptHasConnection == pc = "accepting" => queued > 0

\* The sessions vector names the threads alive, and is empty outside the loop.
\* AtLimit is tested in the step that adds a worker, so the limit is a bound
\* in every state.
IInv ==
  /\ TypeOK
  /\ AcceptHasConnection
  /\ ThreadsAreTracked
  /\ pc \in {"called", "setup", "returned"} => sessions = {}

\* TypeOK in two parts, the flags and the rest.
Flags ==
  stopRequested \in BOOLEAN /\ asked \in BOOLEAN /\ refused \in BOOLEAN

Types ==
  /\ pc \in Running \cup {"called", "leaving", "joining", "returned"}
  /\ sessions \subseteq Workers
  /\ worker \in [Workers -> {"none", "serving", "ended", "finished"}]
  /\ queued \in 0..MaxQueued
  /\ AcceptHasConnection
-----------------------------------------------------------------------------
LEMMA TwoParts == TypeOK /\ AcceptHasConnection <=> Flags /\ Types
BY Zenon DEF TypeOK, Flags, Types

LEMMA SessionsFinite ==
  ASSUME NEW S \in SUBSET Workers
  PROVE  IsFiniteSet(S) /\ Cardinality(S) \in Nat
<1>1. IsFiniteSet(S)
  BY LoopAssumption, FS_Subset
<1> QED
  BY <1>1, FS_CardinalityType

\* A vector that shrinks, together with the live threads, stays in bound.
LEMMA FewerThreads ==
  ASSUME IInv, sessions' \subseteq sessions, Live' = sessions'
  PROVE  ThreadsAreTracked'
<1>1. sessions \in SUBSET Workers /\ sessions' \in SUBSET sessions
  BY DEF IInv, TypeOK
<1>2. /\ IsFiniteSet(sessions) /\ Cardinality(sessions) \in Nat
      /\ sessions' \in SUBSET Workers
  BY <1>1, SessionsFinite
<1>3. Cardinality(sessions') <= Cardinality(sessions)
  BY <1>1, <1>2, FS_Subset
<1>4. Cardinality(sessions') \in Nat
  BY <1>2, SessionsFinite
<1>5. Cardinality(sessions) <= MaxConnections
  BY DEF IInv, ThreadsAreTracked
<1> QED
  BY <1>2, <1>3, <1>4, <1>5, LoopAssumption DEF ThreadsAreTracked

LEMMA IInvInit == Init => IInv
<1> SUFFICES ASSUME Init PROVE IInv
  OBVIOUS
<1>f. Flags
  BY Zenon DEF Init, Flags
<1>y. Types
  BY LoopAssumption DEF Init, Types, Running, AcceptHasConnection
<1>1. TypeOK /\ AcceptHasConnection
  BY <1>f, <1>y, TwoParts
<1>2. Live = {} /\ sessions = {}
  BY DEF Init, Live
<1>3. ThreadsAreTracked
  BY <1>2, FS_EmptySet, LoopAssumption DEF ThreadsAreTracked
<1> QED
  BY <1>1, <1>2, <1>3 DEF IInv

LEMMA IInvStep == IInv /\ [Next]_vars => IInv'
<1> SUFFICES ASSUME IInv, [Next]_vars PROVE IInv'
  OBVIOUS
<1>t. /\ TypeOK /\ AcceptHasConnection /\ ThreadsAreTracked
      /\ pc \in {"called", "setup", "returned"} => sessions = {}
  BY DEF IInv
<1>l. Live = sessions
  BY <1>t DEF ThreadsAreTracked
<1>f. Flags /\ Types
  BY <1>t, TwoParts
<1>q. /\ queued \in Nat /\ queued <= MaxQueued /\ MaxQueued \in Nat \ {0}
      /\ sessions \subseteq Workers
  BY <1>f, LoopAssumption DEF Types
<1>1. CASE \/ Stop \/ Arrive \/ Enter \/ SetUp \/ Poll \/ AcceptFails \/ Refuse
           \/ Leave \/ Return \/ Rerun \/ UNCHANGED vars
  <2> USE DEF Stop, Arrive, Enter, SetUp, Poll, AcceptFails, Refuse, Leave,
              Return, Rerun, vars
  <2>1. UNCHANGED <<sessions, worker>>
    BY <1>1
  <2>f. Flags'
    BY Zenon, <1>f, <1>1 DEF Flags
  <2>y. Types'
    BY <1>f, <1>q, <1>1 DEF Types, Running, AcceptHasConnection
  <2>2. TypeOK' /\ AcceptHasConnection'
    BY Zenon, <2>f, <2>y DEF Flags, Types, TypeOK
  <2>3. Live' = sessions'
    BY <1>l, <2>1 DEF Live
  <2>4. ThreadsAreTracked'
    BY <2>1, <2>3, FewerThreads
  <2>5. (pc \in {"called", "setup", "returned"} => sessions = {})'
    BY <1>t, <1>1, <2>1
  <2> QED
    BY <2>2, <2>4, <2>5 DEF IInv
<1>2. CASE Top
  <2>f. Flags'
    BY Zenon, <1>f, <1>2 DEF Flags, Top
  <2>y. Types'
    BY <1>f, <1>q, <1>2
       DEF Types, Running, AcceptHasConnection, Top, Reapable
  <2>1. TypeOK' /\ AcceptHasConnection'
    BY Zenon, <2>f, <2>y DEF Flags, Types, TypeOK
  <2>2. sessions' \subseteq sessions /\ Live' = sessions'
    BY <1>f, <1>l, <1>2 DEF Top, Live, Reapable, Types
  <2>3. ThreadsAreTracked'
    BY <2>2, FewerThreads
  <2> QED
    BY <1>2, <2>1, <2>3 DEF Top, IInv
<1>3. ASSUME NEW w \in Workers, Accept(w)
      PROVE  IInv'
  <2>f. Flags'
    BY Zenon, <1>f, <1>3 DEF Flags, Accept
  <2>y. Types'
    BY <1>f, <1>q, <1>3
       DEF Types, Running, AcceptHasConnection, Accept
  <2>1. TypeOK' /\ AcceptHasConnection'
    BY Zenon, <2>f, <2>y DEF Flags, Types, TypeOK
  <2>2. CASE UNCHANGED <<sessions, worker>>
    <3>1. Live' = sessions'
      BY <1>l, <2>2 DEF Live
    <3>2. ThreadsAreTracked'
      BY <2>2, <3>1, FewerThreads
    <3> QED
      BY <1>3, <2>1, <3>2 DEF Accept, IInv
  <2>3. CASE sessions' = sessions \cup {w} /\ worker' = [worker EXCEPT ![w] = "serving"]
    <3>1. Live' = sessions'
      BY <1>f, <1>l, <2>3 DEF Live, Types
    <3>2. /\ IsFiniteSet(sessions) /\ Cardinality(sessions) \in Nat
          /\ Cardinality(sessions) < MaxConnections
      BY <1>q, <1>3, SessionsFinite, LoopAssumption DEF Accept, AtLimit
    <3>a. Cardinality(sessions \cup {w}) =
            IF w \in sessions THEN Cardinality(sessions)
                              ELSE Cardinality(sessions) + 1
      BY <3>2, FS_AddElement
    <3>3. Cardinality(sessions \cup {w}) <= Cardinality(sessions) + 1
      BY <3>2, <3>a
    <3>4. Cardinality(sessions \cup {w}) \in Nat
      BY <1>q, SessionsFinite
    <3>5. ThreadsAreTracked'
      BY <2>3, <3>1, <3>2, <3>3, <3>4, LoopAssumption DEF ThreadsAreTracked
    <3> QED
      BY <1>3, <2>1, <3>5 DEF Accept, IInv
  <2> QED
    BY <1>3, <2>2, <2>3 DEF Accept
<1>4. ASSUME NEW w \in Workers, Join(w)
      PROVE  IInv'
  <2>f. Flags'
    BY Zenon, <1>f, <1>4 DEF Flags, Join
  <2>y. Types'
    BY <1>f, <1>q, <1>4
       DEF Types, Running, AcceptHasConnection, Join
  <2>1. TypeOK' /\ AcceptHasConnection'
    BY Zenon, <2>f, <2>y DEF Flags, Types, TypeOK
  <2>2. sessions' \subseteq sessions /\ Live' = sessions'
    BY <1>f, <1>l, <1>4 DEF Join, Live, Types
  <2>3. ThreadsAreTracked'
    BY <2>2, FewerThreads
  <2> QED
    BY <1>4, <2>1, <2>3 DEF Join, IInv
<1>5. ASSUME NEW w \in Workers, EndSession(w) \/ Finish(w)
      PROVE  IInv'
  <2>f. Flags'
    BY Zenon, <1>f, <1>5 DEF Flags, EndSession, Finish
  <2>y. Types'
    BY <1>f, <1>q, <1>5
       DEF Types, Running, AcceptHasConnection, EndSession, Finish
  <2>1. TypeOK' /\ AcceptHasConnection'
    BY Zenon, <2>f, <2>y DEF Flags, Types, TypeOK
  <2>2. sessions' \subseteq sessions /\ Live' = sessions'
    BY <1>f, <1>l, <1>5 DEF EndSession, Finish, Live, Types
  <2>3. ThreadsAreTracked'
    BY <2>2, FewerThreads
  <2> QED
    BY <1>t, <1>5, <2>1, <2>3 DEF EndSession, Finish, IInv
<1> QED
  BY <1>1, <1>2, <1>3, <1>4, <1>5 DEF Next, RunStep

LEMMA Invariance == Spec => []IInv
BY IInvInit, IInvStep, PTL DEF Spec

\* The types TypeOK gives hold; in particular the loop never accepts from an
\* empty listener.
THEOREM TypeCorrect == Spec => []TypeOK
<1>1. IInv => TypeOK
  BY DEF IInv
<1> QED
  BY <1>1, Invariance, PTL

\* Every live worker thread is in the vector that run() joins, and there are
\* never more of them than the limit.
THEOREM TrackingCorrect == Spec => []ThreadsAreTracked
<1>1. IInv => ThreadsAreTracked
  BY DEF IInv
<1> QED
  BY <1>1, Invariance, PTL

\* No worker thread survives run(): the server object may be destroyed.
THEOREM ShutdownCorrect == Spec => []NoThreadOutlivesRun
<1>1. IInv => NoThreadOutlivesRun
  BY DEF IInv, ThreadsAreTracked, NoThreadOutlivesRun
<1> QED
  BY <1>1, Invariance, PTL
=============================================================================
