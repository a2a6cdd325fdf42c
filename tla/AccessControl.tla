--------------------------- MODULE AccessControl ---------------------------
(***************************************************************************)
(* What the protected file system promises its clients: a table of rights, *)
(* a set of connections, and exact decisions taken on the table at the     *)
(* time of each call.  No lists, pools, counters or back-end.              *)
(*                                                                         *)
(* Opening a file, and giving an SM its first rights on one, may be        *)
(* refused for want of resources; every other answer is determined.        *)
(***************************************************************************)
EXTENDS Integers

CONSTANTS SMs, Names, FDs, ROOT, CREATOR, READ, WRITE, NIL, Wanted, Granted,
          BadFDs,       \* descriptors that are never valid
          NoCall,       \* the reply record before any call
          NULL

VARIABLES
    rights,             \* rights[n][sm]: what sm may do with file n; {} is no entry
    conn,               \* conn[fd]: the SM and file it connects, or NULL
    reply

vars == <<rights, conn, reply>>

Exists(n) == \E sm \in SMs : rights[n][sm] # NIL
Connected(sm, fd) == fd \in FDs /\ conn[fd] # NULL /\ conn[fd].sm = sm
May(sm, n, want) == rights[n][sm] # NIL /\ want \subseteq rights[n][sm]

Init ==
    /\ rights = [n \in Names |-> [sm \in SMs |-> NIL]]
    /\ conn = [fd \in FDs |-> NULL]
    /\ reply = NoCall

Refuse(call) == reply' = [call EXCEPT !.ok = FALSE] /\ UNCHANGED <<rights, conn>>

\* A free descriptor connects the caller with the file; or none can be had.
Connect(call) ==
    \/ \E fd \in FDs :
          /\ reply' = [call EXCEPT !.fd = fd, !.back = call.name]
          /\ conn[fd] = NULL
          /\ conn' = [conn EXCEPT ![fd] = [sm |-> call.sm, name |-> call.name]]
    \/ reply' = [call EXCEPT !.ok = FALSE] /\ UNCHANGED conn

\* A new file belongs to its creator, even if the connection then fails.
Create(call) ==
    /\ Connect(call)
    /\ ~Exists(call.name) /\ call.create
    /\ rights' = [rights EXCEPT ![call.name][call.sm] = CREATOR]

OpenExisting(call) ==
    /\ Connect(call)
    /\ May(call.sm, call.name, call.flags)
    /\ UNCHANGED rights

Open(sm, n, want, create) ==
    LET call == [NoCall EXCEPT !.op = "open", !.sm = sm, !.name = n,
                               !.flags = want, !.create = create]
    IN  \/ Create(call)
        \/ OpenExisting(call)
        \/ Refuse(call) /\ ~May(sm, n, want)

Close(sm, fd) ==
    LET call == [NoCall EXCEPT !.op = "close", !.sm = sm, !.fd = fd]
    IN  \/ /\ reply' = call
           /\ Connected(sm, fd)
           /\ conn' = [conn EXCEPT ![fd] = NULL]
           /\ UNCHANGED rights
        \/ Refuse(call) /\ ~Connected(sm, fd)

\* Only without connections; all rights go with the file.
Remove(sm, n) ==
    LET call == [NoCall EXCEPT !.op = "remove", !.sm = sm, !.name = n]
        free == \A fd \in FDs : conn[fd] # NULL => conn[fd].name # n
    IN  \/ /\ \E ok \in BOOLEAN : reply' = [call EXCEPT !.ok = ok]
           /\ May(sm, n, ROOT) /\ free
           /\ rights' = [rights EXCEPT ![n] = [id \in SMs |-> NIL]]
           /\ UNCHANGED conn
        \/ Refuse(call) /\ ~(May(sm, n, ROOT) /\ free)

\* Taking an SM's rights away closes its connections to the file at once.
Revoke(call) ==
    /\ reply' = call
    /\ rights' = [rights EXCEPT ![call.name][call.id] = NIL]
    /\ conn' = [fd \in FDs |->
                  IF conn[fd] = [sm |-> call.id, name |-> call.name] THEN NULL ELSE conn[fd]]

\* Changed rights hold for open connections too.
Assign(call) ==
    /\ reply' = call
    /\ rights' = [rights EXCEPT ![call.name][call.id] = call.flags]
    /\ UNCHANGED conn

\* An SM that holds the creator's rights keeps them.  An SM without rights is
\* not given the creator's; one that has some may be.
Chmod(sm, n, id, flags) ==
    LET call == [NoCall EXCEPT !.op = "chmod", !.sm = sm, !.name = n,
                               !.id = id, !.flags = flags]
        allowed == May(sm, n, ROOT) /\ rights[n][id] # CREATOR
        first   == rights[n][id] = NIL
    IN  \/ flags = NIL /\ Revoke(call) /\ allowed
        \/ flags # NIL /\ Assign(call) /\ allowed /\ (first => flags # CREATOR)
        \/ Refuse(call) /\ (~allowed \/ (first /\ flags # NIL))

\* The call acts on the file of the connection exactly if the SM now has the
\* rights it needs.
Use(op, sm, fd, need) ==
    LET call == [NoCall EXCEPT !.op = op, !.sm = sm, !.fd = fd]
        granted == Connected(sm, fd) /\ May(sm, conn[fd].name, need)
    IN  \/ /\ \E ok \in BOOLEAN, n \in Names :
                 /\ reply' = [call EXCEPT !.ok = ok, !.back = n]
                 /\ granted /\ n = conn[fd].name
           /\ UNCHANGED <<rights, conn>>
        \/ Refuse(call) /\ ~granted

Attest(sm, n, owner) ==
    /\ reply' = [NoCall EXCEPT !.op = "attest", !.sm = sm, !.name = n, !.id = owner,
                               !.ok = May(owner, n, CREATOR)]
    /\ UNCHANGED <<rights, conn>>

Prepare(sm) ==
    /\ reply' = [NoCall EXCEPT !.op = "init", !.sm = sm]
    /\ UNCHANGED <<rights, conn>>

Next ==
    \E sm \in SMs :
        \/ Prepare(sm)
        \/ \E n \in Names :
               \/ \E want \in Wanted, create \in BOOLEAN : Open(sm, n, want, create)
               \/ Remove(sm, n)
               \/ \E id \in SMs :
                      \/ \E flags \in Granted : Chmod(sm, n, id, flags)
                      \/ Attest(sm, n, id)
        \/ \E fd \in FDs \union BadFDs :
               \/ Close(sm, fd)
               \/ Use("getc", sm, fd, READ)
               \/ Use("putc", sm, fd, WRITE)
               \/ Use("seek", sm, fd, NIL)

Spec == Init /\ [][Next]_vars
=============================================================================
