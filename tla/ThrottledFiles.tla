----------------------------- MODULE ThrottledFiles ----------------------------
(***************************************************************************)
(* What PADLL promises an application, without tables, pointers or steps   *)
(* in between: every call is decided once, before it runs, by the mount    *)
(* point of the file it is about.  A call on a throttled mount point goes  *)
(* through the stage, a call on another one never does.                    *)
(*                                                                         *)
(* Nothing is promised about a handle whose file PADLL does not know: one  *)
(* it has not seen being opened, a reserved or duplicated one, a stream,   *)
(* or one that is being closed.                                            *)
(***************************************************************************)
CONSTANTS
    Threads,
    Keys,      \* handles
    Mounts,    \* mount points
    Throttled, \* the mount points, of Mounts, whose calls the stage must admit
    Unknown    \* no promise: not a mount point

VARIABLES
    held,    \* the handles the application holds
    mount,   \* the mount point of the file behind each of them
    phase,   \* where the call of each thread stands
    subject  \* what that call is about: a handle, a path on a mount point, or
             \* nothing the promise speaks of

vars == <<held, mount, phase, subject>>

Subjects == ({"handle"} \X Keys) \cup ({"path"} \X Mounts) \cup {<<"none", Unknown>>}

Phases == {"idle", "deciding", "admitted", "bypassed", "executed"}

TypeOK ==
    /\ held \subseteq Keys
    /\ mount \in [Keys -> Mounts \cup {Unknown}]
    /\ phase \in [Threads -> Phases]
    /\ subject \in [Threads -> Subjects]

Init ==
    /\ held \in SUBSET Keys
    /\ mount = [k \in Keys |-> Unknown]
    /\ phase = [t \in Threads |-> "idle"]
    /\ subject = [t \in Threads |-> <<"none", Unknown>>]

Forget(gone) == [k \in Keys |-> IF k \in gone THEN Unknown ELSE mount[k]]

\* A call about s begins.  It may give up a handle for good; a call that needs no
\* decision is taken as bypassed.
Begin(t, s) ==
    /\ phase[t] = "idle"
    /\ \E p \in {"deciding", "bypassed"} : phase' = [phase EXCEPT ![t] = p]
    /\ subject' = [subject EXCEPT ![t] = s]
    /\ \E given \in {{}} \cup {{k} : k \in held} :
            /\ held' = held \ given
            /\ mount' = Forget(given)

MountOf(s) == IF s[1] = "handle" THEN mount[s[2]] ELSE s[2]

\* The promise.
Decide(t) ==
    LET m == MountOf(subject[t])
    IN  /\ phase[t] = "deciding"
        /\ \/ /\ m \in Throttled \cup {Unknown}
              /\ phase' = [phase EXCEPT ![t] = "admitted"]
           \/ /\ m \notin Throttled
              /\ phase' = [phase EXCEPT ![t] = "bypassed"]
        /\ UNCHANGED <<held, mount, subject>>

\* The call runs; duplicating a handle ends the promise about it.
Execute(t) ==
    /\ phase[t] \in {"admitted", "bypassed"}
    /\ phase' = [phase EXCEPT ![t] = "executed"]
    /\ \E gone \in {{}, {k \in Keys : subject[t] = <<"handle", k>>}} : mount' = Forget(gone)
    /\ UNCHANGED <<held, subject>>

\* It returns, perhaps with a new handle on the file it was about.
Return(t) ==
    /\ phase[t] = "executed"
    /\ phase' = [phase EXCEPT ![t] = "idle"]
    /\ subject' = [subject EXCEPT ![t] = <<"none", Unknown>>]
    /\ \/ UNCHANGED <<held, mount>>
       \/ \E k \in Keys \ held, m \in {MountOf(subject[t]), Unknown} :
            /\ held' = held \cup {k}
            /\ mount' = [mount EXCEPT ![k] = m]

\* The application gets or gives up a handle by other means.
Outside(k) ==
    /\ held' = IF k \in held THEN held \ {k} ELSE held \cup {k}
    /\ mount' = Forget({k})
    /\ UNCHANGED <<phase, subject>>

Next ==
    \/ \E t \in Threads :
        \/ \E s \in Subjects : Begin(t, s)
        \/ Decide(t)
        \/ Execute(t)
        \/ Return(t)
    \/ \E k \in Keys : Outside(k)

Spec == Init /\ [][Next]_vars

================================================================================
