----------------------------- MODULE KeyedCommand -----------------------------
(***************************************************************************)
(* What an idempotency key promises the clients that send it, whatever      *)
(* becomes of records, rollbacks and processes behind it.  A request is     *)
(* answered once.  A command that is one transaction is carried out only if *)
(* nothing was carried out under the key before; a repeatable one, which    *)
(* storage may be asked for again, at any time.  An answer other than an    *)
(* error is that of a command carried out: the request's own, another       *)
(* request's for the same command, or, where the command is repeatable, one *)
(* for a command of the same kind (another complete's, to a complete).      *)
(***************************************************************************)
CONSTANTS
    Requests,     \* the requests with the key
    Commands,     \* what they may ask for
    Repeatable,   \* the commands that take more than one transaction
    Kind,         \* the kind of each command: pause, complete, ...
    None,
    Refused,      \* answered without being tried
    Failed        \* answered after a failure

VARIABLES
    asked,        \* the command each request asks for, or None
    reply,        \* the answer it was given, or None
    executed      \* the requests whose own run carried their command out

vars == <<asked, reply, executed>>

Init ==
    /\ asked = [r \in Requests |-> None]
    /\ reply = [r \in Requests |-> None]
    /\ executed = {}

\* The answers there are to a request for command c without running it.
Replayed(c) ==
    {d \in {asked[q] : q \in executed} :
        d = c \/ (d \in Repeatable /\ Kind[d] = Kind[c])}

Ask(r, c) ==
    /\ asked[r] = None
    /\ asked' = [asked EXCEPT ![r] = c]
    /\ \E answer \in {None, Refused, Failed} \cup Replayed(c) :
          reply' = [reply EXCEPT ![r] = answer]
    /\ UNCHANGED executed

Execute(r) ==
    /\ asked[r] # None
    /\ reply[r] = None
    /\ executed = {} \/ asked[r] \in Repeatable
    /\ reply' = [reply EXCEPT ![r] = asked[r]]
    /\ executed' = executed \cup {r}
    /\ UNCHANGED asked

GiveUp(r) ==
    /\ asked[r] # None
    /\ reply[r] = None
    /\ reply' = [reply EXCEPT ![r] = Failed]
    /\ UNCHANGED <<asked, executed>>

Next == \E r \in Requests :
            (\E c \in Commands : Ask(r, c)) \/ Execute(r) \/ GiveUp(r)

Spec == Init /\ [][Next]_vars

=============================================================================
