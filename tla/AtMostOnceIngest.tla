-------------------------- MODULE AtMostOnceIngest --------------------------
(***************************************************************************)
(* What fetching mailboxes promises, without accounts, runs, caches or      *)
(* transactions: a message is taken out of its mailbox once and for good,   *)
(* and a report enters the tables at most once, from a message that has     *)
(* already been taken or from an uploaded file.  Taking does not promise    *)
(* importing: what is taken may be lost.                                    *)
(***************************************************************************)

CONSTANTS
    Messages,      \* the messages that can arrive
    Attachments,   \* the report files they carry, and the uploaded ones
    MessageOf,     \* the message that carries a file
    KeyOf,         \* the report a file holds
    UploadFiles    \* the files an operator may upload

VARIABLES
    avail,   \* the messages waiting in a mailbox
    taken,   \* the messages moved out of it
    table    \* the files whose reports are stored

promiseVars == <<avail, taken, table>>

Init == avail = {} /\ taken = {} /\ table = {}

Deliver(m) ==
    /\ m \notin avail \cup taken
    /\ avail' = avail \cup {m}
    /\ UNCHANGED <<taken, table>>

Take(S) ==
    /\ S # {}
    /\ avail' = avail \ S
    /\ taken' = taken \cup S
    /\ UNCHANGED table

Import(a) ==
    /\ \A b \in table : KeyOf[b] # KeyOf[a]
    /\ MessageOf[a] \in taken \/ a \in UploadFiles
    /\ table' = table \cup {a}
    /\ UNCHANGED <<avail, taken>>

Next ==
    \/ \E m \in Messages : Deliver(m)
    \/ \E S \in SUBSET avail : Take(S)
    \/ \E a \in Attachments : Import(a)

Spec == Init /\ [][Next]_promiseVars
=============================================================================
