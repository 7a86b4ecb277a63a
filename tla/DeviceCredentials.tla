--------------------------- MODULE DeviceCredentials ---------------------------
(***************************************************************************)
(* One device, its credentials, and the administrators' requests that       *)
(* enable, disable, rotate and revoke them at the same time.                *)
(*                                                                         *)
(* No request locks anything.  It reads the device row, then the active     *)
(* credentials (two statements, each seeing what is committed by then), and *)
(* commits once; its UPDATEs name only the columns it changed in memory.     *)
(* From the flush to the commit a transaction holds the locks of the rows   *)
(* it writes, so flush and commit are one step.  What stands between two    *)
(* rotations is one constraint, UNIQUE (device_id, credential_version).     *)
(***************************************************************************)
EXTENDS Naturals

CONSTANTS
    Requests,    \* administrators' requests in flight (slots, reusable)
    Lifetimes,   \* credential_expires_in_seconds, in ticks of the clock
    Overlaps,    \* overlap_seconds of a rotation, in ticks
    MaxVersion,  \* bound: no rotation begins at this version
    MaxTime      \* bound: the clock stops here

ASSUME DeviceAssumption ==
    /\ Lifetimes \subseteq Nat \ {0}
    /\ Overlaps \subseteq Nat
    /\ MaxVersion \in Nat \ {0}
    /\ MaxTime \in Nat

VARIABLES
    now,         \* the clock
    status,      \* devices.status
    version,     \* devices.credential_version, 0 before the registration
    issued,      \* the credential versions that have a row
    revoked,     \* those with revoked_at set
    expires,     \* expires_at of each version
    issuedAt,    \* issued_at of each version
    overlap,     \* overlap_seconds of the rotation that issued it (audit row)
    barred,      \* history: versions a committed revocation was to end
    step,        \* where each request is
    mem          \* what each request has read, and its parameters

credentials == <<issued, revoked, expires, issuedAt, overlap>>
vars == <<now, status, version, credentials, barred, step, mem>>

Versions == 1..MaxVersion
Statuses == {"ACTIVE", "DISABLED", "REVOKED", "DELETED"}
Commands == {"enable", "disable", "rotate", "revoke"}

Memory == [command: Commands, status: Statuses, version: Nat, at: Nat,
           overlap: Nat, present: SUBSET Versions, active: SUBSET Versions,
           later: SUBSET Versions]

Nothing == [command |-> "enable", status |-> "ACTIVE", version |-> 0, at |-> 0,
            overlap |-> 0, present |-> {}, active |-> {}, later |-> {}]

-----------------------------------------------------------------------------
(* What authentication and the selection of credentials decide.             *)

\* _require_device_credential: the bearer of version v is let in.
Usable(v) == /\ v \in issued
             /\ status = "ACTIVE"
             /\ v \notin revoked
             /\ expires[v] > now

\* Mutant: only the credential the device row points to.
MutantActive == {v \in issued \ revoked : v = version /\ expires[v] > now}

\* _active_credentials
Active == {v \in issued \ revoked : expires[v] > now}

\* Mutant: the end of the overlap assigned without comparing.
MutantEndsLater(end) == Active

\* The credentials whose expires_at a rotation moves to the end of its overlap.
EndsLater(end) == {v \in Active : expires[v] > end}

\* Mutant: a status the column does not admit.
MutantTarget(command) == IF command = "enable" THEN "ENABLED" ELSE "DISABLED"

\* The status the enable and the disable route pass to set_device_status.
Target(command) == IF command = "enable" THEN "ACTIVE" ELSE "DISABLED"

-----------------------------------------------------------------------------
Init ==
    /\ now = 0
    /\ status = "ACTIVE"
    /\ version = 0
    /\ issued = {}
    /\ revoked = {}
    /\ expires = [v \in Versions |-> 0]
    /\ issuedAt = [v \in Versions |-> 0]
    /\ overlap = [v \in Versions |-> 0]
    /\ barred = {}
    /\ step = [a \in Requests |-> "idle"]
    /\ mem = [a \in Requests |-> Nothing]

\* The handler returns, raises or dies: what is not committed is rolled back.
Leave(a) == /\ step' = [step EXCEPT ![a] = "idle"]
            /\ mem' = [mem EXCEPT ![a] = Nothing]

\* provision: the new credential's row and the device's version.
Provision(v, at, lifetime, o) ==
    /\ issued' = issued \cup {v}
    /\ issuedAt' = [issuedAt EXCEPT ![v] = at]
    /\ overlap' = [overlap EXCEPT ![v] = o]
    /\ version' = v
    /\ lifetime \in Lifetimes

\* register_device, with the upload permissions granted in the same transaction.
Register(lifetime) ==
    /\ version = 0
    /\ Provision(1, now, lifetime, 0)
    /\ expires' = [expires EXCEPT ![1] = now + lifetime]
    /\ UNCHANGED <<now, status, revoked, barred, step, mem>>

-----------------------------------------------------------------------------
(* Requests.                                                               *)

\* What the status read refuses: enabling a revoked device, rotating the
\* credential of a revoked or deleted one.
Admits(command) ==
    CASE command = "enable" -> status # "REVOKED"
      [] command = "rotate" -> status \notin {"REVOKED", "DELETED"}
                               /\ version < MaxVersion
      [] OTHER -> TRUE

\* _require_device_for_project and the check of the status.
LoadDevice(a, command) ==
    /\ step[a] = "idle"
    /\ version # 0
    /\ status # "DELETED"
    /\ Admits(command)
    /\ step' = [step EXCEPT ![a] = IF command \in {"enable", "disable"}
                                   THEN "ready" ELSE "loaded"]
    /\ mem' = [mem EXCEPT ![a] = [Nothing EXCEPT !.command = command,
                                                 !.status = status,
                                                 !.version = version]]
    /\ UNCHANGED <<now, status, version, credentials, barred>>

\* The clock is read and the active credentials selected: what will be written
\* to them is decided here.
SelectCredentials(a, o) ==
    /\ step[a] = "loaded"
    /\ o \in IF mem[a].command = "rotate" THEN Overlaps ELSE {0}
    /\ step' = [step EXCEPT ![a] = "ready"]
    /\ mem' = [mem EXCEPT ![a] =
                 [command |-> @.command, status |-> @.status, version |-> @.version,
                  at |-> now, overlap |-> o, present |-> issued, active |-> Active,
                  later |-> IF o = 0 THEN {} ELSE EndsLater(now + o)]]
    /\ UNCHANGED <<now, status, version, credentials, barred>>

\* A column assigned the value it was read with is not named by the UPDATE.
WriteStatus(a, new) == status' = IF mem[a].status = new THEN status ELSE new

CommitStatus(a) ==
    /\ step[a] = "ready"
    /\ mem[a].command \in {"enable", "disable"}
    /\ WriteStatus(a, Target(mem[a].command))
    /\ Leave(a)
    /\ UNCHANGED <<now, version, credentials, barred>>

CommitRotation(a, lifetime) ==
    LET m == mem[a]
        v == m.version + 1
    IN  /\ step[a] = "ready"
        /\ m.command = "rotate"
        /\ v \in Versions \ issued
        /\ Provision(v, m.at, lifetime, m.overlap)
        /\ revoked' = IF m.overlap = 0 THEN revoked \cup m.active ELSE revoked
        /\ expires' = [w \in Versions |->
                         IF w = v THEN m.at + lifetime
                         ELSE IF w \in m.later THEN m.at + m.overlap
                         ELSE expires[w]]
        /\ Leave(a)
        /\ UNCHANGED <<now, status, barred>>

\* The INSERT violates the unique constraint: the transaction is rolled back.
RotationConflicts(a) ==
    /\ step[a] = "ready"
    /\ mem[a].command = "rotate"
    /\ mem[a].version + 1 \in issued
    /\ Leave(a)
    /\ UNCHANGED <<now, status, version, credentials, barred>>

CommitRevocation(a) ==
    /\ step[a] = "ready"
    /\ mem[a].command = "revoke"
    /\ revoked' = revoked \cup mem[a].active
    /\ barred' = barred \cup mem[a].present
    /\ WriteStatus(a, "REVOKED")
    /\ Leave(a)
    /\ UNCHANGED <<now, version, issued, expires, issuedAt, overlap>>

Crash(a) ==
    /\ step[a] # "idle"
    /\ Leave(a)
    /\ UNCHANGED <<now, status, version, credentials, barred>>

Tick ==
    /\ now < MaxTime
    /\ now' = now + 1
    /\ UNCHANGED <<status, version, credentials, barred, step, mem>>

Next ==
    \/ Tick
    \/ \E l \in Lifetimes : Register(l)
    \/ \E a \in Requests :
          \/ \E c \in Commands : LoadDevice(a, c)
          \/ \E o \in Overlaps \cup {0} : SelectCredentials(a, o)
          \/ CommitStatus(a)
          \/ \E l \in Lifetimes : CommitRotation(a, l)
          \/ RotationConflicts(a)
          \/ CommitRevocation(a)
          \/ Crash(a)

Spec == Init /\ [][Next]_vars

-----------------------------------------------------------------------------
(* Properties.                                                             *)

\* The device row, the credential rows and the requests' memory are well typed.
TypeOK ==
    /\ now \in 0..MaxTime
    /\ status \in Statuses
    /\ version \in 0..MaxVersion
    /\ issued \subseteq Versions
    /\ revoked \subseteq issued
    /\ expires \in [Versions -> Nat]
    /\ issuedAt \in [Versions -> Nat]
    /\ overlap \in [Versions -> Nat]
    /\ barred \subseteq issued
    /\ step \in [Requests -> {"idle", "loaded", "ready"}]
    /\ mem \in [Requests -> Memory]

\* Once a rotation has issued version w, every older credential is let in no
\* longer than the overlap that rotation asked for, none without overlap: also
\* those still in the overlap of an earlier rotation, with other rotations in
\* flight.
RotationEndsPredecessors ==
    \A v, w \in issued : v < w /\ Usable(v) => now < issuedAt[w] + overlap[w]

\* A credential that had a row when a revocation selected what to revoke is
\* never let in after that revocation has committed: whatever requests were in
\* flight, and even if the device is enabled again.
RevocationReaches == \A v \in barred : ~Usable(v)

=============================================================================
