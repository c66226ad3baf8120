---------------------------- MODULE EncryptServer ---------------------------
(***************************************************************************)
(* The user-level prototype: clear_stack/stack_encrypt_server.c serves one *)
(* connection after the other on a Unix socket, and the programs that want *)
(* their stack encrypted are clients as in                                 *)
(* clear_stack/stack_encrypt_client.c.  A request is the line              *)
(*     "e/d f1 1234(pid) 123456(rsp) 125839(rbp)"                          *)
(* of which the model keeps the first token (op), the second (func) and    *)
(* the first character of the last one (head): that is the character the   *)
(* server decides by.  A line with fewer tokens is "short".  The walk over *)
(* the stack itself is StackAreas.                                         *)
(***************************************************************************)
EXTENDS HashTable

CONSTANTS Clients,    \* processes that make one request each
          Requests,   \* what they may ask: [op, func, head]
          Backlog,    \* how many connections wait for accept()
          MayDie      \* a client may be killed at any time

ASSUME ServerAssumption ==
    /\ Requests \subseteq [op : Values, func : Keys, head : {"digit", "e", "d", "short"}]
    /\ Clients # {} /\ Backlog \in Nat \ {0} /\ MayDie \in BOOLEAN

VARIABLES
    client,    \* where each client is
    asked,     \* what it has sent
    read,      \* what the server took it for (history)
    queue,     \* connections that are not accepted yet
    server,    \* where the server is
    conn,      \* s2: the client the server talks to
    str,       \* the server's line buffer, shared by all connections
    reply,     \* what the server has sent back on each connection
    served     \* the requests that were carried out

vars == <<ht, call, client, asked, read, queue, server, conn, str, reply, served>>

NoRequest == [op |-> None, func |-> 0, head |-> "none"]

(* What may be in the line buffer; "missing" stands for a token that strtok() does not find. *)
Lines == [op : Values, func : Keys, head : {"digit", "e", "d", "missing"}]

Init ==
    /\ HtInit
    /\ client = [c \in Clients |-> "start"]
    /\ asked = [c \in Clients |-> NoRequest] /\ read = asked
    /\ queue = <<>> /\ server = "accept" /\ conn = CHOOSE c \in Clients : TRUE
    /\ str = NoRequest
    /\ reply = [c \in Clients |-> None]
    /\ served = {}

Up == server \in {"accept", "recv", "handle", "send"}

At(c, where) == client' = [client EXCEPT ![c] = where]
-----------------------------------------------------------------------------
(* Mutant: connections are taken beyond the backlog. *)
ConnectUnbounded(c) ==
    /\ client[c] = "start"
    /\ queue' = Append(queue, c) /\ At(c, "connected")
    /\ UNCHANGED <<ht, call, asked, read, server, conn, str, reply, served>>

(* request_encrypt_stack *)
Connect(c) ==
    /\ client[c] = "start"
    /\ \/ Up /\ Len(queue) < Backlog /\ queue' = Append(queue, c) /\ At(c, "connected")
       \/ ~Up /\ At(c, "failed") /\ UNCHANGED queue
    /\ UNCHANGED <<ht, call, asked, read, server, conn, str, reply, served>>

(* The line fits the socket's buffer, so send() does not wait for the server. *)
Send(c) ==
    /\ client[c] = "connected"
    /\ \/ Up /\ At(c, "waiting") /\ \E r \in Requests : asked' = [asked EXCEPT ![c] = r]
       \/ ~Up /\ At(c, "failed") /\ UNCHANGED asked
    /\ UNCHANGED <<ht, call, read, queue, server, conn, str, reply, served>>

(* recv() ends with the answer, or with 0 when the server is gone. *)
Receive(c) ==
    /\ client[c] = "waiting"
    /\ \/ reply[c] # None /\ At(c, "answered")
       \/ reply[c] = None /\ ~Up /\ At(c, "failed")
    /\ UNCHANGED <<ht, call, asked, read, queue, server, conn, str, reply, served>>

Die(c) ==
    /\ MayDie /\ client[c] \in {"connected", "waiting"}
    /\ At(c, "dead")
    /\ UNCHANGED <<ht, call, asked, read, queue, server, conn, str, reply, served>>
-----------------------------------------------------------------------------
(* main *)
Accept ==
    /\ server = "accept" /\ queue # <<>>
    /\ conn' = Head(queue) /\ queue' = Tail(queue)
    /\ server' = "recv"
    /\ UNCHANGED <<ht, call, client, asked, read, str, reply, served>>

(* recv() puts no NUL behind what it reads: a short line goes on with what the buffer    *)
(* has from before, the end of a longer line or bytes that nobody wrote.                 *)
Tokens(line) == {r \in Lines : /\ r.op = line.op
                               /\ line.head # "short" => r = line}

Take(line) == /\ str' = line /\ read' = [read EXCEPT ![conn] = line]
              /\ server' = "handle"
              /\ UNCHANGED <<ht, call, client, asked, queue, conn, reply, served>>

(* Mutant: the line of an earlier connection is not overwritten. *)
RecvOldLine ==
    /\ server = "recv" /\ asked[conn] # NoRequest
    /\ \E line \in Tokens(asked[conn]) : Take(IF str = NoRequest THEN line ELSE str)

(* Bytes that were sent are delivered even if the sender is gone since. *)
Recv ==
    /\ server = "recv" /\ asked[conn] # NoRequest
    /\ \E line \in Tokens(asked[conn]) : Take(line)

(* A connection that was closed before anything was sent: n is 0, which is not handled.  *)
(* The line of an earlier connection is tokenised again; strtok() has already cut it, so *)
(* the second token is NULL, and strlen() of it ends the server.  A first connection     *)
(* meets an uninitialised line.                                                          *)
RecvNothing ==
    /\ server = "recv" /\ asked[conn] = NoRequest /\ client[conn] = "dead"
    /\ \/ /\ str # NoRequest /\ server' = "crashed"
          /\ UNCHANGED <<ht, call, client, asked, read, queue, conn, str, reply, served>>
       \/ str = NoRequest /\ \E line \in Lines : Take(line)

Handling(head) == server = "handle" /\ str.head = head

(* strlen() or atol() of a token that is not there. *)
HandleMissing ==
    /\ Handling("missing")
    /\ server' = "crashed"
    /\ UNCHANGED <<ht, call, client, asked, read, queue, conn, str, reply, served>>

(* Only the first eight bytes of the htvalue are kept, since sizeof is taken of the *)
(* pointer: the op, not rsp and rbp.  encrypt_stack() ends the server if the page   *)
(* map of the process cannot be opened or has no such place.                        *)
HandleEncrypt ==
    /\ Handling("e")
    /\ Set(str.func, str.op)
    /\ served' = served \cup {conn}
    /\ server' \in {"send", "crashed", "exited"}
    /\ UNCHANGED <<client, asked, read, queue, conn, str, reply>>

(* Mutant: a decrypt is answered whatever the table says. *)
HandleDecryptAny ==
    /\ Handling("d")
    /\ Get(str.func)
    /\ server' = "send" /\ served' = served \cup {conn}
    /\ UNCHANGED <<client, asked, read, queue, conn, str, reply>>

(* A function that is not in the table ends the server's loop and with it the server. *)
HandleDecrypt ==
    /\ Handling("d")
    /\ Get(str.func)
    /\ IF call'.value = None THEN server' = "exited" /\ UNCHANGED served
                         ELSE server' = "send" /\ served' = served \cup {conn}
    /\ UNCHANGED <<client, asked, read, queue, conn, str, reply>>

(* Mutant: a line that is passed over is not sent back. *)
HandleOtherSilent ==
    /\ Handling("digit")
    /\ server' = "accept"
    /\ UNCHANGED <<ht, call, client, asked, read, queue, conn, str, reply, served>>

HandleOther ==
    /\ Handling("digit")
    /\ server' = "send"
    /\ UNCHANGED <<ht, call, client, asked, read, queue, conn, str, reply, served>>

(* The line is sent back as strtok() left it, with NULs for the blanks: what the client *)
(* can print of it is the op.  A client that is gone means SIGPIPE.                     *)
SendBack ==
    /\ server = "send" /\ client[conn] # "dead"
    /\ reply' = [reply EXCEPT ![conn] = str.op]
    /\ server' = "accept"
    /\ UNCHANGED <<ht, call, client, asked, read, queue, conn, str, served>>

SendBroken ==
    /\ server = "send" /\ client[conn] = "dead"
    /\ server' = "killed"
    /\ UNCHANGED <<ht, call, client, asked, read, queue, conn, str, reply, served>>

Main == \/ Accept \/ Recv \/ RecvNothing
        \/ HandleMissing \/ HandleEncrypt \/ HandleDecrypt \/ HandleOther
        \/ SendBack \/ SendBroken

Request(c) == Connect(c) \/ Send(c) \/ Receive(c)

AllDone == (\A c \in Clients : client[c] \in {"answered", "failed", "dead"}) /\ UNCHANGED vars

Next == Main \/ (\E c \in Clients : Request(c) \/ Die(c)) \/ AllDone

(* Server and clients are processes that the system schedules; none of them stops of *)
(* its own accord between the calls of the code above.                               *)
Spec == Init /\ [][Next]_vars /\ WF_vars(Main) /\ \A c \in Clients : WF_vars(Request(c))
-----------------------------------------------------------------------------
(* Type invariant. *)
ServerTypeOK ==
    /\ client \in [Clients -> {"start", "connected", "waiting", "answered", "failed", "dead"}]
    /\ asked \in [Clients -> Requests \cup {NoRequest}]
    /\ read \in [Clients -> Lines \cup {NoRequest}]
    /\ queue \in Seq(Clients) /\ Len(queue) <= Backlog
    /\ server \in {"accept", "recv", "handle", "send", "crashed", "exited", "killed"}
    /\ conn \in Clients /\ str \in Lines \cup {NoRequest}
    /\ reply \in [Clients -> Values \cup {None}] /\ served \subseteq Clients

(* One buffer serves all connections in turn, yet a client is only ever answered with    *)
(* its own line, and only a client whose request was dealt with or passed over is        *)
(* answered: no answer is given twice, swapped or made up, even when clients die.  A     *)
(* line that has all its tokens is taken as it was sent, whatever was in the buffer.     *)
OwnAnswer ==
    \A c \in Clients : reply[c] # None =>
        /\ reply[c] = asked[c].op /\ (asked[c].head # "short" => read[c] = asked[c])
        /\ c \in served \/ read[c].head = "digit"
        /\ \A n \in DOMAIN queue : queue[n] # c

(* A decrypt is only answered for a function that an earlier request put in the table,   *)
(* and the table has nobody else's entries, whatever a short line was taken for.         *)
DecryptAfterEncrypt ==
    \A c \in Clients : (reply[c] # None /\ read[c].head = "d") =>
        \E d \in served \ {c} : read[d].head = "e" /\ read[d].func = read[c].func

(* Every client that started gets an answer, fails because the server is gone, or was    *)
(* killed: nobody waits for ever, with a backlog that is shorter than the line.          *)
NobodyWaits == \A c \in Clients : client[c] = "start" ~> client[c] \in {"answered", "failed", "dead"}

(* A request to encrypt is carried out before it is answered. *)
EncryptCarriedOut == \A c \in Clients : (reply[c] # None /\ asked[c].op = "e") => c \in served
=============================================================================
