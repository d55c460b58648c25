----------------------------- MODULE FdPassing ------------------------------
(***************************************************************************)
(* Passing descriptors over a stream: send_fd, send_err and recv_fd        *)
(* (lib/sendfd.c, senderr.c, recvfd.c and the variants Orecvfd.c,          *)
(* ipc2/sendfd2.c and recvfd2.c), used by the client that forks its own    *)
(* open server (ipc2/open.fe) and by that server (ipc2/opend.fe).  The     *)
(* stream holds bytes: a text byte, the null byte that announces the       *)
(* status, or the status; a descriptor travels with its null byte.         *)
(***************************************************************************)
EXTENDS Integers, Sequences, FiniteSetsExt

CONSTANTS
  MAXLINE,  \* size of the buffers for requests, error messages and recv_fd
  Codes,    \* error codes given to send_err, as positive numbers
  MaxCalls  \* bound on the calls of csopen

VARIABLES
  variant,  \* the pair of sender and receiver in use
  slack,    \* bytes of padding the kernel counts in msg_controllen
  pipe,     \* the static fd of csopen: "none", "up", "down", or "orphan"
  call,     \* csopen: whether it waits, which call it is, text bytes shown
  inbox,    \* the calls whose request the server has not read
  chan,     \* bytes from the server to the client
  srv,      \* the server: what it still has to send, and for which call
  result    \* what the last csopen returned, and the answer sent to it

vars == <<variant, slack, pipe, call, inbox, chan, srv, result>>

FdAssumption == MAXLINE \in Nat /\ MAXLINE > 2 /\ Codes \subseteq Nat \ {0} /\ MaxCalls \in Nat

Idle == [call |-> 0, text |-> 0, code |-> 0]
Byte(b, v, n) == [b |-> b, v |-> v, n |-> n]
Text(n) == Byte("text", 0, n)
-----------------------------------------------------------------------------
(* The sending side. *)
\* The control data: the descriptor, and the credentials in sendfd2.c.
RIGHTSLEN == 20
CREDSLEN == 28
CONTROLLEN == IF variant = "ufd" THEN RIGHTSLEN + CREDSLEN ELSE RIGHTSLEN

\* The status byte: the low 8 bits of the code, never 0 for an error.
status_plain(code) == code % 256
status(code) == IF code % 256 = 0 THEN 1 ELSE code % 256

send_fd(n, code) ==
  IF code = 0
  THEN <<Byte("null", CONTROLLEN + slack, n), Byte("status", 0, n)>>
  ELSE <<Byte("null", 0, n), Byte("status", status(code), n)>>

\* handle_request of opend.fe: an error message, which fits in errmsg with its
\* null byte and snprintf's limit of MAXLINE-1, or the descriptor.
errtext == 1..(MAXLINE - 2)

handle_request_silent ==
  /\ pipe = "up" /\ srv = Idle /\ inbox # <<>>
  /\ inbox' = Tail(inbox)
  /\ \E n \in {0, Head(inbox)} : srv' = [Idle EXCEPT !.call = n]
  /\ UNCHANGED <<variant, slack, pipe, call, chan, result>>
handle_request ==
  /\ pipe = "up" /\ srv = Idle /\ inbox # <<>>
  /\ inbox' = Tail(inbox)
  /\ \E k \in errtext, code \in Codes \cup {0} :
       srv' = [call |-> Head(inbox), text |-> IF code = 0 THEN 0 ELSE k, code |-> code]
  /\ UNCHANGED <<variant, slack, pipe, call, chan, result>>

\* writen in send_err: any part of what is left.
send_err ==
  /\ pipe = "up"
  /\ \E j \in 1..srv.text :
       /\ chan' = chan \o [k \in 1..j |-> Text(srv.call)]
       /\ srv' = [srv EXCEPT !.text = @ - j]
  /\ UNCHANGED <<variant, slack, pipe, call, inbox, result>>

\* One sendmsg of two bytes; then the server waits for the next request.
Send ==
  /\ pipe = "up" /\ srv # Idle /\ srv.text = 0
  /\ chan' = chan \o send_fd(srv.call, srv.code)
  /\ srv' = Idle
  /\ UNCHANGED <<variant, slack, pipe, call, inbox, result>>

\* The server is killed, or could not be started (execl error).
ServerDies ==
  /\ pipe = "up" /\ pipe' = "down" /\ srv' = Idle
  /\ UNCHANGED <<variant, slack, call, inbox, chan, result>>
-----------------------------------------------------------------------------
(* The receiving side. *)
\* recvmsg: all there is, up to the buffer, but nothing beyond the status that
\* follows a descriptor.
recvmsg ==
  LET limit == Min({MAXLINE, Len(chan)})
      stops == {k \in 1..(limit - 1) : chan[k].b = "null" /\ chan[k].v > 0}
  IN  IF stops = {} THEN limit ELSE Min(stops) + 1

\* Is there a descriptor in the control data?  recvfd.c on Linux accepts
\* padding; the others want the exact length.
HasFd(controllen) ==
  IF variant = "fd" /\ slack > 0 THEN controllen >= CONTROLLEN ELSE controllen = CONTROLLEN

\* The search for the null byte: it must be the last but one.
recv_fd(buf) ==
  LET nulls == {k \in DOMAIN buf : buf[k].b = "null"}
      nr == Len(buf)
  IN  IF nulls = {} THEN [kind |-> "more", text |-> nr, call |-> 0]
      ELSE IF Min(nulls) # nr - 1 THEN [kind |-> "dump", text |-> 0, call |-> 0]
      ELSE [kind |-> IF buf[nr].v # 0 THEN "err"
                     ELSE IF HasFd(buf[nr - 1].v) THEN "fd" ELSE "dump",
            text |-> nr - 2, call |-> buf[nr].n]

Return(r) ==
  /\ result' = r
  /\ call' = [call EXCEPT !.waits = FALSE, !.shown = 0]

Receive ==
  /\ call.waits /\ chan # <<>>
  /\ LET r == recv_fd(SubSeq(chan, 1, recvmsg))
     IN  /\ chan' = SubSeq(chan, recvmsg + 1, Len(chan))
         /\ IF r.kind = "more"
            THEN call' = [call EXCEPT !.shown = @ + r.text] /\ UNCHANGED result
            ELSE Return([kind |-> r.kind, call |-> r.call, shown |-> call.shown + r.text])
  /\ UNCHANGED <<variant, slack, pipe, inbox, srv>>

\* "connection closed by server"
ReceiveEnd ==
  /\ call.waits /\ chan = <<>> /\ pipe = "down"
  /\ Return([kind |-> "closed", call |-> call.n, shown |-> 0])
  /\ UNCHANGED <<variant, slack, pipe, inbox, chan, srv>>

\* csopen of open.fe.  fd[0] keeps the end of a pipe whose other end nobody
\* serves when fork fails.
StartServer ==
  /\ ~call.waits /\ pipe = "none" /\ call.n < MaxCalls
  /\ \E p \in {"none", "orphan", "up"} :
       /\ pipe' = p
       /\ IF p = "up" THEN UNCHANGED <<call, result>>
          ELSE /\ call' = [call EXCEPT !.n = @ + 1]
               /\ result' = [kind |-> "failed", call |-> call.n + 1, shown |-> 0]
  /\ UNCHANGED <<variant, slack, inbox, chan, srv>>

\* The client is ended by SIGPIPE when its server is gone, and by err_dump.
csopen ==
  /\ ~call.waits /\ pipe \in {"up", "orphan"} /\ call.n < MaxCalls /\ result.kind # "dump"
  /\ call' = [waits |-> TRUE, n |-> call.n + 1, shown |-> 0]
  /\ inbox' = Append(inbox, call.n + 1)
  /\ UNCHANGED <<variant, slack, pipe, chan, srv, result>>

\* The client's input ends; the server's read returns 0 and it ends too.
Leave ==
  /\ ~call.waits /\ pipe = "up"
  /\ pipe' = "down" /\ call' = [call EXCEPT !.n = MaxCalls]
  /\ result' = [kind |-> "none", call |-> MaxCalls, shown |-> 0]
  /\ UNCHANGED <<variant, slack, inbox, chan, srv>>
-----------------------------------------------------------------------------
\* Orecvfd.c and recvfd2.c are for systems without padding.
Init ==
  /\ variant \in {"fd", "Ofd", "ufd"}
  /\ slack \in IF variant = "fd" THEN {0, 4} ELSE {0}
  /\ pipe = "none" /\ inbox = <<>> /\ chan = <<>> /\ srv = Idle
  /\ call = [waits |-> FALSE, n |-> 0, shown |-> 0]
  /\ result = [kind |-> "none", call |-> 0, shown |-> 0]

Server == handle_request \/ send_err \/ Send
Client == StartServer \/ csopen \/ Receive \/ ReceiveEnd \/ Leave
Next == Server \/ ServerDies \/ Client
-----------------------------------------------------------------------------
\* Whatever the pieces the error message arrives in, recv_fd never takes it
\* for a format error or a missing descriptor, and returns the answer to the
\* request just made, all of its text shown, nothing left over for the next.
AnswerIsMine ==
  /\ result.kind # "dump"
  /\ ~call.waits => result.call = call.n /\ chan = <<>>
  /\ result.kind = "err" => result.shown \in errtext
  /\ result.kind = "fd" => result.shown = 0

\* csopen waits in recv_fd, and a server was started for it.
InCall == call.waits /\ pipe # "orphan"
=============================================================================
