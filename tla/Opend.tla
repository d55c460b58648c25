------------------------------- MODULE Opend --------------------------------
(***************************************************************************)
(* The open server of ipc2/opend/ with its two event loops (loop.poll.c,   *)
(* loop.select.c) and its table of clients (client.c), the clients of      *)
(* ipc2/open/, and serv_accept and cli_conn, which connect them.           *)
(* Descriptors are numbered from 0; the listening socket has 0 and a new   *)
(* connection gets the lowest number not in use.                           *)
(***************************************************************************)
EXTENDS Integers, Sequences, FiniteSetsExt

CONSTANTS
  Clients,   \* client processes, one user id each: the client itself
  Loops,     \* which of "poll" and "select" the server is built with
  NALLOC,    \* entries added when client[] or pollfd[] is full
  MaxReq,    \* bound on the requests of each client
  MaxStale   \* bound on connections left waiting for more than STALE seconds

VARIABLES
  loop,    \* the loop in use
  cl,      \* each client's state, requests made, and what is under way on its socket
  queue,   \* connections not accepted yet
  conn,    \* the server's descriptors and the client at the other end
  client,  \* client[]: fd (-1 when free) and uid
  watch,   \* poll: pollfd[0..numfd-1] as fd and revents; select: allset
  size,    \* poll: maxfd, the allocated length of pollfd; select: <<maxfd, maxi>>
  srv      \* where the server is: pc, i, the descriptors select found ready

vars == <<loop, cl, queue, conn, client, watch, size, srv>>

OpendAssumption ==
  /\ NALLOC \in Nat \ {0} /\ MaxReq \in [Clients -> Nat] /\ MaxStale \in Nat
  /\ Loops \subseteq {"poll", "select"}

Fd(c) == {f \in DOMAIN conn : conn[f] = c}
Live == {"connected", "wait"}
\* What poll and select report: data to read or end of file, and a hang-up.
Readable(f) == cl[conn[f]].req # "none" \/ cl[conn[f]].pc = "gone"
HungUp(f) == cl[conn[f]].pc = "gone"
Ready == {f \in DOMAIN conn : Readable(f)} \cup (IF queue # <<>> THEN {0} ELSE {})
Alive == srv.pc # "dead"
-----------------------------------------------------------------------------
(* The clients. *)
\* cli_conn: a name of its own, then connect; without a server connect fails,
\* the name is removed and csopen returns -1.
cli_conn(c) ==
  /\ cl[c].pc = "start"
  /\ IF Alive
     THEN /\ cl' = [cl EXCEPT ![c].pc = "connected"]
          /\ queue' = Append(queue, [c |-> c, stale |-> FALSE])
     ELSE cl' = [cl EXCEPT ![c].pc = "gone"] /\ UNCHANGED queue
  /\ UNCHANGED <<loop, conn, client, watch, size, srv>>

\* csopen's writev of a request; to a closed connection it ends the client
\* with SIGPIPE.  A bad request is not terminated or has the wrong number of
\* arguments.
csopen(c) ==
  /\ cl[c].pc = "connected" /\ cl[c].n < MaxReq[c]
  /\ IF Alive
     THEN \E r \in {"good", "bad"} :
            cl' = [cl EXCEPT ![c] = [@ EXCEPT !.pc = "wait", !.req = r, !.n = cl[c].n + 1]]
     ELSE cl' = [cl EXCEPT ![c].pc = "gone"]
  /\ UNCHANGED <<loop, queue, conn, client, watch, size, srv>>

\* recv_fd in csopen: a descriptor, an error, or "connection closed by server".
Received(c) ==
  /\ cl[c].pc = "wait" /\ (cl[c].ans # "none" \/ ~Alive)
  /\ cl' = [cl EXCEPT ![c] = [@ EXCEPT !.pc = "connected", !.ans = "none"]]
  /\ UNCHANGED <<loop, queue, conn, client, watch, size, srv>>

\* End of the client's input, or its death at any moment.
Leave(c) ==
  /\ cl[c].pc \in Live
  /\ cl' = [cl EXCEPT ![c].pc = "gone"]
  /\ UNCHANGED <<loop, queue, conn, client, watch, size, srv>>

\* The name of a client that has not been accepted grows too old.
GrowStale ==
  /\ Cardinality({k \in DOMAIN queue : queue[k].stale}) < MaxStale
  /\ \E k \in DOMAIN queue :
       ~queue[k].stale /\ queue' = [queue EXCEPT ![k].stale = TRUE]
  /\ UNCHANGED <<loop, cl, conn, client, watch, size, srv>>
-----------------------------------------------------------------------------
(* client.c *)
FreeEntries(t) == {k \in DOMAIN t : t[k].fd = -1}

client_alloc(t) == t \o [k \in 1..NALLOC |-> [fd |-> -1, uid |-> "none"]]

\* The table with a new entry, and its index.
client_add(f, u) ==
  LET t == IF FreeEntries(client) = {} THEN client_alloc(client) ELSE client
      k == Min(FreeEntries(t))
  IN  <<[t EXCEPT ![k] = [fd |-> f, uid |-> u]], k>>

\* FALSE when client_del would end the server with log_quit.
Known(f) == \E k \in DOMAIN client : client[k].fd = f

client_del(f) ==
  LET k == Min({j \in DOMAIN client : client[j].fd = f})
  IN  [client EXCEPT ![k].fd = -1]

\* exit and death by signal: every descriptor is closed.
Die ==
  /\ srv' = [pc |-> "dead", i |-> 0, ready |-> {}]
  /\ conn' = <<>> /\ queue' = <<>> /\ client' = <<>> /\ watch' = <<>> /\ size' = 0
  /\ UNCHANGED loop

\* serv_accept: the uid is the owner of the client's name, which must not be
\* too old.  An error closes the connection and log_sys ends the server.
Lowest == Min((0..(Cardinality(DOMAIN conn) + 1)) \ ({0} \cup DOMAIN conn))
serv_accept(c) == Head(queue).c = c /\ ~Head(queue).stale

Connect(c) ==
  /\ conn' = [f \in DOMAIN conn \cup {Lowest} |-> IF f = Lowest THEN c ELSE conn[f]]
  /\ queue' = Tail(queue)

Refuse ==
  /\ srv.pc = "accept" /\ Head(queue).stale
  /\ Die /\ UNCHANGED cl

\* handle_request: cli_args rejects a bad request, open may fail, and the
\* answer goes back by send_fd or send_err.  An answer to a client that has
\* left ends the server with SIGPIPE.
handle_request_silent(c) ==
  cl' = [cl EXCEPT ![c] = [@ EXCEPT !.req = "none", !.ans = IF cl[c].req = "good" THEN "fd" ELSE "none"]]
handle_request(c) ==
  \E a \in IF cl[c].req = "good" THEN {"fd", "err"} ELSE {"err"} :
    cl' = [cl EXCEPT ![c] = [@ EXCEPT !.req = "none", !.ans = a]]

SigPipe(c) == cl[c].pc = "gone" /\ Die /\ cl' = [cl EXCEPT ![c].req = "none"]

Close(f) == conn' = [g \in DOMAIN conn \ {f} |-> conn[g]]
-----------------------------------------------------------------------------
(* loop.poll.c *)
\* Sequences count from 1, so entry i of pollfd[] and client[] is element i + 1.
numfd == Len(watch)
At(l) == loop = "poll" /\ srv.pc = l

\* The for loop from entry i on: to the next entry with an event, or back to poll.
Scan(w, i) ==
  LET found == {k \in i..(Len(w) - 1) : w[k + 1].revents # {}}
  IN  IF found # {}
      THEN srv' = [srv EXCEPT !.pc = "scan", !.i = Min(found)] /\ watch' = w
      ELSE /\ srv' = [srv EXCEPT !.pc = "poll", !.i = 0]
           /\ watch' = [k \in DOMAIN w |-> [w[k] EXCEPT !.revents = {}]]

Poll ==
  /\ At("poll") /\ Ready # {}
  /\ LET w == [k \in DOMAIN watch |->
               [watch[k] EXCEPT !.revents =
                  {e \in {"IN", "HUP"} : watch[k].fd \in Ready
                                         /\ (e = "HUP" => k > 1 /\ HungUp(watch[k].fd))}]]
     IN  IF 0 \in Ready THEN srv' = [srv EXCEPT !.pc = "accept"] /\ watch' = w
                        ELSE Scan(w, 1)
  /\ UNCHANGED <<loop, cl, queue, conn, client, size>>

PollAccept ==
  /\ At("accept")
  /\ \E c \in Clients :
       /\ serv_accept(c)
       /\ Connect(c)
       /\ client' = client_add(Lowest, c)[1]
  /\ size' = IF numfd = size THEN size + NALLOC ELSE size
  /\ Scan(Append(watch, [fd |-> Lowest, revents |-> {}]), 1)
  /\ UNCHANGED <<loop, cl>>

Entry == watch[srv.i + 1]

\* The client hung up: its entry is filled with the last one and looked at
\* again.
Pack(i) ==
  SubSeq(IF i < numfd - 1 THEN [watch EXCEPT ![i + 1] = watch[numfd]] ELSE watch, 1, numfd - 1)

PollHangUp ==
  /\ At("scan")
  /\ \/ "HUP" \in Entry.revents
     \/ "IN" \in Entry.revents /\ cl[conn[Entry.fd]].req = "none"
  /\ IF Known(Entry.fd)
     THEN /\ client' = client_del(Entry.fd)
          /\ Close(Entry.fd)
          /\ Scan(Pack(srv.i), IF srv.i < numfd - 1 THEN srv.i ELSE srv.i + 1)
          /\ UNCHANGED <<loop, queue, size>>
     ELSE Die
  /\ UNCHANGED cl

PollHandles ==
  IF At("scan") /\ Entry.revents = {"IN"} /\ cl[conn[Entry.fd]].req # "none"
  THEN {[c |-> conn[Entry.fd], uid |-> client[srv.i + 1].uid]} ELSE {}

PollRequest ==
  \E h \in PollHandles :
    \/ SigPipe(h.c)
    \/ /\ cl[h.c].pc # "gone" /\ handle_request(h.c)
       /\ Scan(watch, srv.i + 1)
       /\ UNCHANGED <<loop, queue, conn, client, size>>
-----------------------------------------------------------------------------
(* loop.select.c *)
SelectAt(l) == loop = "select" /\ srv.pc = l
maxfd == size[1]
maxi == size[2]

\* The loop over client[] from entry i on: to the next one in rset, or back to
\* select.  Entries that were free when the loop began have fd -1.
SelectScan(t, i, rset) ==
  LET found == {k \in i..maxi : t[k].fd \in rset}
  IN  srv' = IF found # {} THEN [pc |-> "scan", i |-> Min(found), ready |-> rset]
                           ELSE [pc |-> "poll", i |-> 0, ready |-> {}]

\* select looks only at descriptors up to maxfd; a connection request is taken
\* alone, with continue.
Select ==
  /\ SelectAt("poll")
  /\ LET rset == {f \in watch : f <= maxfd /\ f \in Ready}
     IN  /\ rset # {}
         /\ IF 0 \in rset THEN srv' = [srv EXCEPT !.pc = "accept"]
                          ELSE SelectScan(client, 1, rset)
  /\ UNCHANGED <<loop, cl, queue, conn, client, watch, size>>

SelectAccept ==
  /\ SelectAt("accept")
  /\ \E c \in Clients :
       /\ serv_accept(c)
       /\ Connect(c)
       /\ client' = client_add(Lowest, c)[1]
       /\ size' = <<Max({maxfd, Lowest}), Max({maxi, client_add(Lowest, c)[2]})>>
  /\ watch' = watch \cup {Lowest}
  /\ srv' = [srv EXCEPT !.pc = "poll"]
  /\ UNCHANGED <<loop, cl>>

Chosen == client[srv.i]

SelectHangUp ==
  /\ SelectAt("scan") /\ cl[conn[Chosen.fd]].req = "none"
  /\ client' = client_del(Chosen.fd)
  /\ watch' = watch \ {Chosen.fd}
  /\ Close(Chosen.fd)
  /\ SelectScan(client', srv.i + 1, srv.ready)
  /\ UNCHANGED <<loop, cl, queue, size>>

SelectHandles_last ==
  IF SelectAt("scan") /\ cl[conn[Chosen.fd]].req # "none"
  THEN {[c |-> conn[Chosen.fd], uid |-> client[maxi].uid]} ELSE {}
SelectHandles ==
  IF SelectAt("scan") /\ cl[conn[Chosen.fd]].req # "none"
  THEN {[c |-> conn[Chosen.fd], uid |-> Chosen.uid]} ELSE {}

SelectRequest ==
  \E h \in SelectHandles :
    \/ SigPipe(h.c)
    \/ /\ cl[h.c].pc # "gone" /\ handle_request(h.c)
       /\ SelectScan(client, srv.i + 1, srv.ready)
       /\ UNCHANGED <<loop, queue, conn, client, watch, size>>
-----------------------------------------------------------------------------
\* serv_listen and the start of loop: only loop.poll.c keeps the listening
\* socket in client[].
Init ==
  /\ loop \in Loops
  /\ cl = [c \in Clients |-> [pc |-> "start", req |-> "none", ans |-> "none", n |-> 0]]
  /\ queue = <<>> /\ conn = <<>>
  /\ client = IF loop = "poll"
              THEN [client_alloc(<<>>) EXCEPT ![1] = [fd |-> 0, uid |-> "none"]]
              ELSE <<>>
  /\ watch = IF loop = "poll" THEN << [fd |-> 0, revents |-> {}] >> ELSE {0}
  /\ size = IF loop = "poll" THEN NALLOC ELSE <<0, 0>>
  /\ srv = [pc |-> "poll", i |-> 0, ready |-> {}]

Server ==
  \/ Poll \/ PollAccept \/ PollHangUp \/ PollRequest
  \/ Select \/ SelectAccept \/ SelectHangUp \/ SelectRequest
  \/ Refuse

Client(c) == cli_conn(c) \/ csopen(c) \/ Received(c) \/ Leave(c)

Next == Server \/ GrowStale \/ \E c \in Clients : Client(c)
-----------------------------------------------------------------------------
\* The two tables of the server name each connection once, and nothing that
\* has been closed; what select leaves out is beyond maxfd and maxi.
TablesAgree ==
  LET entries == {k \in DOMAIN client : client[k].fd > 0}
  IN  Alive =>
      /\ {client[k].fd : k \in entries} = DOMAIN conn
      /\ Cardinality(entries) = Cardinality(DOMAIN conn)
      /\ loop = "poll" =>
           /\ {watch[k].fd : k \in 2..numfd} = DOMAIN conn
           /\ numfd = Cardinality(DOMAIN conn) + 1 /\ numfd <= size
      /\ loop = "select" =>
           /\ watch = {0} \cup DOMAIN conn
           /\ \A f \in watch : f <= maxfd
           /\ \A k \in entries : k <= maxi

\* A request is handled with the uid of the client that sent it.
UidRight == \A h \in PollHandles \cup SelectHandles : h.uid = h.c

\* c waits in recv_fd for an answer; c has gone and the server still has its
\* connection open.
Waiting(c) == cl[c].pc = "wait"
Abandoned(c) == cl[c].pc = "gone" /\ Fd(c) # {}
=============================================================================
