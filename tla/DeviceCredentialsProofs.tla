------------------------ MODULE DeviceCredentialsProofs ------------------------
(***************************************************************************)
(* Proofs about DeviceCredentials for any number of requests, credentials,  *)
(* lifetimes and overlaps, and a clock that runs as long as one likes.      *)
(***************************************************************************)
EXTENDS DeviceCredentials, TLAPS

\* The constraint on (device, version) leaves no gap and no duplicate.
Consecutive == issued = 1..version

\* A credential that no step can make usable after time t.
EndedBy(v, t) == v \in revoked \/ expires[v] <= t

RotationEnded ==
    \A v, w \in issued : v < w => EndedBy(v, issuedAt[w] + overlap[w])

BarredEnded == \A v \in barred : EndedBy(v, now)

Rotating(a) == step[a] # "idle" /\ mem[a].command = "rotate"
Ready(a, c) == step[a] = "ready" /\ mem[a].command = c

\* A rotation starts from a version the device had.
FromAVersion == \A a \in Requests : Rotating(a) => mem[a].version \in 1..version

\* A rotation that can still commit has seen every credential as it is now: the
\* next version would exist if another had committed since.
RotationSees ==
    \A a \in Requests : Ready(a, "rotate") /\ mem[a].version + 1 \notin issued =>
        \A v \in issued :
            /\ v \in mem[a].active \/ EndedBy(v, mem[a].at)
            /\ mem[a].overlap > 0 =>
                 v \in mem[a].later \/ EndedBy(v, mem[a].at + mem[a].overlap)
            /\ v \in mem[a].later => expires[v] > mem[a].at + mem[a].overlap

RevocationSees ==
    \A a \in Requests : Ready(a, "revoke") =>
        /\ mem[a].present \subseteq issued
        /\ \A v \in mem[a].present : v \in mem[a].active \/ EndedBy(v, mem[a].at)

\* What a request has selected are credentials, and its clock is not ahead.
MemoryIsOfThePast ==
    \A a \in Requests : mem[a].active \subseteq issued /\ mem[a].at <= now

IInv ==
    /\ TypeOK
    /\ Consecutive
    /\ RotationEnded
    /\ BarredEnded
    /\ FromAVersion
    /\ RotationSees
    /\ RevocationSees
    /\ MemoryIsOfThePast

LEMMA InitHolds == Init => IInv
<1> SUFFICES ASSUME Init PROVE IInv
  OBVIOUS
<1> USE DeviceAssumption DEF Init
<1>1. TypeOK
  BY DEF TypeOK, Statuses, Versions, Nothing, Memory, Commands
<1>2. Consecutive /\ RotationEnded /\ BarredEnded
  BY DEF Consecutive, RotationEnded, BarredEnded
<1>3. FromAVersion /\ RotationSees /\ RevocationSees /\ MemoryIsOfThePast
  BY DEF FromAVersion, RotationSees, RevocationSees, MemoryIsOfThePast, Rotating,
         Ready, Nothing
<1> QED
  BY <1>1, <1>2, <1>3 DEF IInv

-----------------------------------------------------------------------------
(* A request that leaves, and a step that leaves the credentials alone.      *)

LEMMA LeaveForgets ==
  ASSUME TypeOK, NEW a \in Requests, Leave(a)
  PROVE  /\ step' \in [Requests -> {"idle", "loaded", "ready"}]
         /\ mem' \in [Requests -> Memory]
         /\ step'[a] = "idle" /\ mem'[a] = Nothing
         /\ \A b \in Requests : b # a => step'[b] = step[b] /\ mem'[b] = mem[b]
<1>1. Nothing \in Memory
  BY DEF Nothing, Memory, Commands, Statuses
<1> QED
  BY <1>1 DEF TypeOK, Leave

LEMMA LeavingKeeps ==
  ASSUME IInv, NEW a \in Requests, Leave(a), status' \in Statuses,
         UNCHANGED <<now, version, credentials, barred>>
  PROVE  IInv'
<1> USE DeviceAssumption DEF IInv, credentials
<1>1. TypeOK'
  BY LeaveForgets DEF TypeOK
<1>2. Consecutive' /\ RotationEnded' /\ BarredEnded'
  BY DEF Consecutive, RotationEnded, BarredEnded, EndedBy
<1>3. FromAVersion' /\ RotationSees' /\ RevocationSees'
  BY LeaveForgets DEF FromAVersion, RotationSees, RevocationSees, Rotating, Ready, EndedBy
<1>4. MemoryIsOfThePast'
  BY LeaveForgets DEF MemoryIsOfThePast, Nothing, TypeOK
<1> QED
  BY <1>1, <1>2, <1>3, <1>4

LEMMA TickKeeps == IInv /\ Tick => IInv'
<1> SUFFICES ASSUME IInv, Tick PROVE IInv'
  OBVIOUS
<1> USE DeviceAssumption DEF IInv, Tick, credentials
<1>1. TypeOK'
  BY DEF TypeOK
<1>2. Consecutive' /\ RotationEnded'
  BY DEF Consecutive, RotationEnded, EndedBy
<1>3. BarredEnded'
  BY DEF BarredEnded, EndedBy, TypeOK
<1>4. FromAVersion' /\ RotationSees' /\ RevocationSees'
  BY DEF FromAVersion, RotationSees, RevocationSees, Rotating, Ready, EndedBy
<1>5. MemoryIsOfThePast'
  BY DEF MemoryIsOfThePast, TypeOK, Memory
<1> QED
  BY <1>1, <1>2, <1>3, <1>4, <1>5

-----------------------------------------------------------------------------
(* Reading.                                                                *)

LEMMA LoadKeeps ==
  ASSUME IInv, NEW a \in Requests, NEW c \in Commands, LoadDevice(a, c)
  PROVE  IInv'
<1> DEFINE m == [Nothing EXCEPT !.command = c, !.status = status, !.version = version]
<1> USE DeviceAssumption DEF IInv, credentials
<1>0. status \in Statuses /\ version \in Nat /\ Nothing \in Memory
  BY DEF TypeOK, Nothing, Memory, Commands, Statuses
<1>1. /\ m \in Memory /\ m.command = c /\ m.version = version
      /\ m.active = {} /\ m.at = 0
  BY <1>0 DEF Nothing, Memory
<1> HIDE DEF m
<1>2. /\ mem' = [mem EXCEPT ![a] = m]
      /\ step' = [step EXCEPT ![a] = IF c \in {"enable", "disable"}
                                     THEN "ready" ELSE "loaded"]
      /\ version # 0
      /\ UNCHANGED <<now, status, version, issued, revoked, expires, issuedAt,
                     overlap, barred>>
  BY DEF LoadDevice, m
<1>3. TypeOK'
  BY <1>1, <1>2 DEF TypeOK
<1>4. Consecutive' /\ RotationEnded' /\ BarredEnded'
  BY <1>2 DEF Consecutive, RotationEnded, BarredEnded, EndedBy
<1>5. FromAVersion'
  BY <1>1, <1>2 DEF FromAVersion, Rotating, TypeOK
<1>6. ~Ready(a, "rotate")' /\ ~Ready(a, "revoke")'
  BY <1>1, <1>2 DEF Ready, TypeOK
<1>7. RotationSees' /\ RevocationSees'
  BY <1>2, <1>6 DEF RotationSees, RevocationSees, Ready, EndedBy, TypeOK
<1>8. MemoryIsOfThePast'
  BY <1>1, <1>2 DEF MemoryIsOfThePast, TypeOK
<1> QED
  BY <1>3, <1>4, <1>5, <1>7, <1>8

LEMMA SelectKeeps ==
  ASSUME IInv, NEW a \in Requests, NEW o \in Overlaps \cup {0}, SelectCredentials(a, o)
  PROVE  IInv'
<1> DEFINE later == IF o = 0 THEN {} ELSE EndsLater(now + o)
           m == [command |-> mem[a].command, status |-> mem[a].status,
                 version |-> mem[a].version, at |-> now, overlap |-> o,
                 present |-> issued, active |-> Active, later |-> later]
<1> USE DeviceAssumption DEF IInv, credentials
<1>1. /\ step[a] = "loaded"
      /\ step' = [step EXCEPT ![a] = "ready"]
      /\ mem' = [mem EXCEPT ![a] = m]
      /\ UNCHANGED <<now, status, version, issued, revoked, expires, issuedAt,
                     overlap, barred>>
  BY DEF SelectCredentials
<1>2. /\ Active \subseteq issued /\ later \subseteq issued /\ o \in Nat
      /\ issued \subseteq Versions
  BY DEF Active, EndsLater, TypeOK
<1>2a. m \in Memory
  BY <1>2 DEF TypeOK, Memory
<1>3. /\ mem' \in [Requests -> Memory]
      /\ mem'[a].command = mem[a].command /\ mem'[a].version = mem[a].version
      /\ mem'[a].at = now /\ mem'[a].overlap = o /\ mem'[a].present = issued
      /\ mem'[a].active = Active /\ mem'[a].later = later
      /\ \A b \in Requests : b # a => mem'[b] = mem[b]
  BY <1>1, <1>2a DEF TypeOK
<1>4. TypeOK'
  BY <1>1, <1>3 DEF TypeOK
<1>5. Consecutive' /\ RotationEnded' /\ BarredEnded'
  BY <1>1 DEF Consecutive, RotationEnded, BarredEnded, EndedBy
<1>6. FromAVersion'
  BY <1>1, <1>3 DEF FromAVersion, Rotating, TypeOK
<1>7. \A v \in issued :
         /\ v \in Active \/ EndedBy(v, now)
         /\ o > 0 => v \in later \/ EndedBy(v, now + o)
         /\ v \in later => expires[v] > now + o
  BY <1>2 DEF Active, EndsLater, EndedBy, TypeOK
<1> HIDE DEF m, later
<1>8. RotationSees' /\ RevocationSees'
  BY <1>1, <1>3, <1>7 DEF RotationSees, RevocationSees, Ready, EndedBy, TypeOK
<1>9. MemoryIsOfThePast'
  BY <1>1, <1>2, <1>3 DEF MemoryIsOfThePast, TypeOK
<1> QED
  BY <1>4, <1>5, <1>6, <1>8, <1>9

-----------------------------------------------------------------------------
(* Committing.                                                             *)

LEMMA RegisterKeeps ==
  ASSUME IInv, NEW l \in Lifetimes, Register(l)
  PROVE  IInv'
<1> USE DeviceAssumption DEF IInv, Register, Provision
<1>1. issued = {} /\ 1 \in Versions /\ l \in Nat /\ revoked = {} /\ barred = {}
  BY DEF Consecutive, TypeOK, Versions
<1>2. TypeOK'
  BY <1>1 DEF TypeOK, Versions
<1>3. Consecutive'
  BY <1>1 DEF Consecutive
<1>4. RotationEnded' /\ BarredEnded'
  BY <1>1 DEF RotationEnded, BarredEnded
<1>5. \A a \in Requests : ~Rotating(a) /\ mem[a].active = {}
  BY <1>1 DEF FromAVersion, MemoryIsOfThePast, TypeOK
<1>6. FromAVersion' /\ RotationSees'
  BY <1>5 DEF FromAVersion, RotationSees, Rotating, Ready
<1>7. ASSUME NEW a \in Requests, Ready(a, "revoke")
      PROVE  mem[a].present = {}
  BY <1>1, <1>7 DEF RevocationSees
<1>8. RevocationSees' /\ MemoryIsOfThePast'
  BY <1>5, <1>7 DEF RevocationSees, MemoryIsOfThePast, Ready
<1> QED
  BY <1>2, <1>3, <1>4, <1>6, <1>8

\* Nothing that was ended is undone: the only rotation that may commit moves
\* expires_at of what it has seen as it still is, and to an earlier time.
LEMMA RotationShortens ==
  ASSUME IInv, NEW a \in Requests, NEW l \in Lifetimes, CommitRotation(a, l)
  PROVE  /\ revoked \subseteq revoked'
         /\ \A v \in issued : expires'[v] <= expires[v]
<1> USE DeviceAssumption DEF IInv
<1>1. revoked \subseteq revoked'
  BY DEF CommitRotation
<1>2. ASSUME NEW v \in issued PROVE expires'[v] <= expires[v]
  <2>1. /\ Ready(a, "rotate") /\ mem[a].version + 1 \notin issued
        /\ v \in Versions /\ v # mem[a].version + 1
        /\ expires[v] \in Nat /\ mem[a].at \in Nat /\ mem[a].overlap \in Nat
    BY DEF CommitRotation, Ready, TypeOK, Memory
  <2>2. expires'[v] = IF v \in mem[a].later THEN mem[a].at + mem[a].overlap
                      ELSE expires[v]
    BY <2>1 DEF CommitRotation
  <2>3. v \in mem[a].later => expires[v] > mem[a].at + mem[a].overlap
    BY <2>1 DEF RotationSees
  <2> QED
    BY <2>1, <2>2, <2>3
<1> QED
  BY <1>1, <1>2

LEMMA RotationKeeps ==
  ASSUME IInv, NEW a \in Requests, NEW l \in Lifetimes, CommitRotation(a, l)
  PROVE  IInv'
<1> DEFINE m == mem[a]
           n == mem[a].version + 1
<1> USE DeviceAssumption DEF IInv
<1>1. /\ Ready(a, "rotate") /\ n \in Versions /\ n \notin issued
      /\ m \in Memory /\ m.at \in Nat /\ m.overlap \in Nat /\ m.version \in Nat
      /\ l \in Nat /\ version \in Nat /\ m.active \subseteq issued /\ m.at <= now
      /\ now \in Nat
  BY DEF CommitRotation, TypeOK, Memory, Ready, MemoryIsOfThePast
<1>2. m.version \in 1..version
  BY <1>1 DEF FromAVersion, Rotating, Ready
<1>3. n = version + 1
  BY <1>1, <1>2 DEF Consecutive
<1>4. /\ issued' = issued \cup {n} /\ version' = n
      /\ issuedAt' = [issuedAt EXCEPT ![n] = m.at]
      /\ overlap' = [overlap EXCEPT ![n] = m.overlap]
      /\ revoked' = IF m.overlap = 0 THEN revoked \cup m.active ELSE revoked
      /\ expires' = [w \in Versions |-> IF w = n THEN m.at + l
                                        ELSE IF w \in m.later THEN m.at + m.overlap
                                        ELSE expires[w]]
      /\ Leave(a)
      /\ UNCHANGED <<now, status, barred>>
  BY DEF CommitRotation, Provision
<1> HIDE DEF n
<1>5. TypeOK'
  <2>1. expires' \in [Versions -> Nat]
    BY <1>1, <1>4 DEF TypeOK
  <2>2. issuedAt' \in [Versions -> Nat] /\ overlap' \in [Versions -> Nat]
    BY <1>1, <1>4 DEF TypeOK
  <2>2a. version' \in 0..MaxVersion
    BY <1>1, <1>4 DEF Versions
  <2>3. issued' \subseteq Versions /\ revoked' \subseteq issued' /\ barred' \subseteq issued'
    BY <1>1, <1>4 DEF TypeOK
  <2> QED
    BY <1>4, <2>1, <2>2, <2>2a, <2>3, LeaveForgets DEF TypeOK
<1>6. Consecutive'
  BY <1>1, <1>3, <1>4 DEF Consecutive
<1>7. \A v \in issued :
         /\ v # n /\ v \in Versions /\ expires'[v] <= expires[v]
         /\ issuedAt'[v] = issuedAt[v] /\ overlap'[v] = overlap[v]
         /\ expires[v] \in Nat /\ expires'[v] \in Nat
         /\ issuedAt[v] \in Nat /\ overlap[v] \in Nat
  BY <1>1, <1>4, <1>5, RotationShortens DEF TypeOK
<1>8. ASSUME NEW v \in issued
      PROVE  v \in revoked' \/ expires'[v] <= m.at + m.overlap
  <2>1. /\ v \in m.active \/ EndedBy(v, m.at)
        /\ m.overlap > 0 => v \in m.later \/ EndedBy(v, m.at + m.overlap)
    BY <1>1, <1>3 DEF RotationSees, n
  <2>2. expires'[v] = IF v \in m.later THEN m.at + m.overlap ELSE expires[v]
    BY <1>4, <1>7
  <2>3. CASE m.overlap = 0
    BY <1>1, <1>4, <1>7, <2>1, <2>3 DEF EndedBy
  <2>4. CASE m.overlap > 0
    BY <1>1, <1>4, <1>7, <2>1, <2>2, <2>4 DEF EndedBy
  <2> QED
    BY <1>1, <2>3, <2>4
<1>9. RotationEnded'
  <2> SUFFICES ASSUME NEW v \in issued', NEW w \in issued', v < w
               PROVE  EndedBy(v, issuedAt[w] + overlap[w])'
    BY DEF RotationEnded
  <2>1. v \in issued
    BY <1>1, <1>3, <1>4 DEF Consecutive
  <2>2. CASE w = n
    <3>1. issuedAt'[w] = m.at /\ overlap'[w] = m.overlap
      BY <1>1, <1>4, <2>2 DEF TypeOK
    <3> QED
      BY <1>8, <2>1, <3>1 DEF EndedBy
  <2>3. CASE w \in issued
    <3>1. EndedBy(v, issuedAt[w] + overlap[w])
      BY <2>1, <2>3 DEF RotationEnded
    <3> QED
      BY <1>4, <1>7, <2>1, <2>3, <3>1 DEF EndedBy
  <2> QED
    BY <1>4, <2>2, <2>3
<1>10. BarredEnded'
  <2> SUFFICES ASSUME NEW v \in barred PROVE v \in revoked' \/ expires'[v] <= now
    BY <1>4 DEF BarredEnded, EndedBy
  <2>1. v \in issued /\ (v \in revoked \/ expires[v] <= now)
    BY DEF TypeOK, BarredEnded, EndedBy
  <2> QED
    BY <1>1, <1>4, <1>7, <2>1
<1>11. FromAVersion'
  BY <1>1, <1>3, <1>4, LeaveForgets DEF FromAVersion, Rotating
<1>12. RotationSees'
  <2> SUFFICES ASSUME NEW b \in Requests, Ready(b, "rotate")',
                      mem'[b].version + 1 \notin issued'
               PROVE  FALSE
    BY DEF RotationSees
  <2>1. b # a /\ mem'[b] = mem[b] /\ Rotating(b)
    BY <1>4, LeaveForgets DEF Ready, Rotating
  <2>2. mem[b].version \in 1..version
    BY <2>1 DEF FromAVersion
  <2> QED
    BY <1>1, <1>3, <1>4, <2>1, <2>2 DEF Consecutive
<1>13. RevocationSees'
  <2> SUFFICES ASSUME NEW b \in Requests, Ready(b, "revoke")'
               PROVE  /\ mem'[b].present \subseteq issued'
                      /\ \A v \in mem'[b].present :
                           v \in mem'[b].active \/ EndedBy(v, mem[b].at)'
    BY <1>4, LeaveForgets DEF RevocationSees, Ready
  <2>1. b # a /\ mem'[b] = mem[b] /\ Ready(b, "revoke") /\ mem[b].at \in Nat
    BY <1>4, LeaveForgets DEF Ready, TypeOK, Memory
  <2>2. /\ mem[b].present \subseteq issued
        /\ \A v \in mem[b].present : v \in mem[b].active \/ EndedBy(v, mem[b].at)
    BY <2>1 DEF RevocationSees
  <2> QED
    BY <1>4, <1>7, <2>1, <2>2 DEF EndedBy
<1>14. MemoryIsOfThePast'
  BY <1>1, <1>4, LeaveForgets DEF MemoryIsOfThePast, Nothing
<1> QED
  BY <1>5, <1>6, <1>9, <1>10, <1>11, <1>12, <1>13, <1>14

LEMMA RevocationKeeps ==
  ASSUME IInv, NEW a \in Requests, CommitRevocation(a)
  PROVE  IInv'
<1> DEFINE m == mem[a]
<1> USE DeviceAssumption DEF IInv
<1>1. /\ Ready(a, "revoke") /\ m \in Memory /\ m.at \in Nat /\ now \in Nat
      /\ m.active \subseteq issued /\ m.at <= now /\ m.present \subseteq issued
      /\ \A v \in m.present : v \in m.active \/ EndedBy(v, m.at)
  BY DEF CommitRevocation, Ready, TypeOK, Memory, MemoryIsOfThePast, RevocationSees
<1>2. /\ revoked' = revoked \cup m.active
      /\ barred' = barred \cup m.present
      /\ status' \in Statuses
      /\ Leave(a)
      /\ UNCHANGED <<now, version, issued, expires, issuedAt, overlap>>
  BY DEF CommitRevocation, WriteStatus, TypeOK, Statuses
<1>3. TypeOK'
  BY <1>1, <1>2, LeaveForgets DEF TypeOK
<1>4. Consecutive' /\ RotationEnded'
  BY <1>2 DEF Consecutive, RotationEnded, EndedBy
<1>5. BarredEnded'
  BY <1>1, <1>2, <1>3 DEF BarredEnded, EndedBy, TypeOK
<1>6. FromAVersion' /\ RotationSees' /\ RevocationSees'
  BY <1>2, LeaveForgets DEF FromAVersion, RotationSees, RevocationSees, Rotating,
     Ready, EndedBy
<1>7. MemoryIsOfThePast'
  BY <1>1, <1>2, LeaveForgets DEF MemoryIsOfThePast, Nothing
<1> QED
  BY <1>3, <1>4, <1>5, <1>6, <1>7

LEMMA NextKeeps == IInv /\ [Next]_vars => IInv'
<1> SUFFICES ASSUME IInv, [Next]_vars PROVE IInv'
  OBVIOUS
<1>1. ASSUME NEW a \in Requests, CommitStatus(a) PROVE IInv'
  BY <1>1, LeavingKeeps DEF CommitStatus, WriteStatus, Target, IInv, TypeOK, Statuses
<1>2. ASSUME NEW a \in Requests, RotationConflicts(a) \/ Crash(a) PROVE IInv'
  BY <1>2, LeavingKeeps DEF RotationConflicts, Crash, IInv, TypeOK
<1>3. CASE UNCHANGED vars
  BY <1>3 DEF vars, credentials, IInv, TypeOK, Consecutive, RotationEnded, BarredEnded,
     FromAVersion, RotationSees, RevocationSees, MemoryIsOfThePast, Rotating, Ready,
     EndedBy
<1> QED
  BY <1>1, <1>2, <1>3, TickKeeps, LoadKeeps, SelectKeeps, RegisterKeeps, RotationKeeps,
     RevocationKeeps DEF Next

LEMMA Invariance == Spec => []IInv
  BY InitHolds, NextKeeps, PTL DEF Spec

-----------------------------------------------------------------------------
(* A device, its credentials and the requests at work on it stay well typed. *)
THEOREM TypeCorrect == Spec => []TypeOK
<1>1. IInv => TypeOK
  BY DEF IInv
<1> QED
  BY <1>1, Invariance, PTL

(* A credential older than another is let in for the overlap its successor's
   rotation asked for and no longer. *)
THEOREM RotationAlwaysEnds == Spec => []RotationEndsPredecessors
<1>1. IInv => RotationEndsPredecessors
  BY DEF IInv, TypeOK, RotationEnded, EndedBy, RotationEndsPredecessors, Usable
<1> QED
  BY <1>1, Invariance, PTL

(* What a committed revocation selected is never let in again. *)
THEOREM RevocationAlwaysReaches == Spec => []RevocationReaches
<1>1. IInv => RevocationReaches
  BY DEF IInv, TypeOK, BarredEnded, EndedBy, RevocationReaches, Usable
<1> QED
  BY <1>1, Invariance, PTL

\* No step takes a credential back from its end: revoked_at is never cleared and
\* expires_at never moved to a later time.
EndsAreFinal ==
    \A v \in issued : /\ v \in revoked => v \in revoked'
                      /\ expires'[v] <= expires[v]

LEMMA StepKeepsEnds ==
  ASSUME IInv, [Next]_vars
  PROVE  EndsAreFinal
<1> USE DEF EndsAreFinal
<1>1. \A v \in issued : expires[v] \in Nat /\ v \in Versions
  BY DEF IInv, TypeOK
<1>2. ASSUME NEW l \in Lifetimes, Register(l) PROVE EndsAreFinal
  BY <1>2 DEF Register, IInv, Consecutive
<1>3. ASSUME NEW a \in Requests, NEW l \in Lifetimes, CommitRotation(a, l)
      PROVE  EndsAreFinal
  BY <1>3, RotationShortens
<1>4. ASSUME NEW a \in Requests,
             \/ \E c \in Commands : LoadDevice(a, c)
             \/ \E o \in Overlaps \cup {0} : SelectCredentials(a, o)
             \/ CommitStatus(a) \/ RotationConflicts(a) \/ CommitRevocation(a)
             \/ Crash(a)
      PROVE  EndsAreFinal
  <2>1. revoked \subseteq revoked' /\ expires' = expires
    BY <1>4 DEF LoadDevice, SelectCredentials, CommitStatus, RotationConflicts,
       CommitRevocation, Crash, credentials
  <2> QED
    BY <1>1, <2>1
<1>5. CASE Tick \/ UNCHANGED vars
  BY <1>1, <1>5 DEF Tick, vars, credentials
<1> QED
  BY <1>2, <1>3, <1>4, <1>5 DEF Next

(* The end of a credential only comes nearer. *)
THEOREM EndsAlwaysFinal == Spec => [][EndsAreFinal]_vars
<1>1. IInv /\ [Next]_vars => [EndsAreFinal]_vars
  BY StepKeepsEnds
<1> QED
  BY <1>1, Invariance, PTL DEF Spec

=============================================================================
