------------------------------ MODULE PollMsg ------------------------------
(* Polling of System V message queues: a helper thread per queue takes       *)
(* messages off it and passes them to main through a descriptor main can     *)
(* poll.  The versions differ in what they pass: the message as a datagram   *)
(* (ipc2/pollmsg.c, figure_17.3.c), its length and then its text through a   *)
(* pipe (exercise_1a.c), a pointer to it (exercise_1b.c), or one byte, with  *)
(* the message in the thread's structure and a condition variable on which   *)
(* the helper waits until main has printed it (exercises/pollmsg2.c).        *)
EXTENDS Naturals, Sequences

CONSTANTS Programs,     \* of pollmsg, figure_17_3, exercise_1a, exercise_1b, pollmsg2
          NQ, MAXMSZ,
          MaxMsg,       \* messages sent
          MaxSpurious   \* times pthread_cond_wait may return by itself

VARIABLES prog, sent,   \* per queue, the length of every message sent, in order
          queue,        \* the message queues
          helper,       \* per queue, where its helper is and the message it has
          chan,         \* the descriptors' contents
          main,         \* where main is, what poll reported and what it has read
          printed,      \* per queue, the messages printed
          text,         \* and how long the text printed for each was
          spurious

vars == <<prog, sent, queue, helper, chan, main, printed, text, spurious>>

Queues == 1 .. NQ
NoMsg  == [id |-> 0, len |-> 0]

PollMsgAssumption == {NQ, MAXMSZ} \subseteq Nat \ {0} /\ {MaxMsg, MaxSpurious} \subseteq Nat

(* What a helper writes for a message, and how much of it main reads at once.*)
pollmsg(m)     == <<m>>
figure_17_3(m) == <<m>>
exercise_1a(m) == <<[m EXCEPT !.id = 0], m>>
exercise_1b(m) == <<m>>
pollmsg2(m)    == <<"a">>

Pass(m) == CASE prog = "pollmsg" -> pollmsg(m) [] prog = "figure_17_3" -> figure_17_3(m)
             [] prog = "exercise_1a" -> exercise_1a(m) [] prog = "exercise_1b" -> exercise_1b(m)
             [] prog = "pollmsg2" -> pollmsg2(m)

(* All but exercise_1b store a null after the n characters they were given.  *)
EndsText == prog # "exercise_1b"

(* How long the text is that main prints for m.  In exercise_1b it ends where *)
(* the block that malloc returned happens to have a null: behind what the     *)
(* message says, in an older one's remains, or not before the end of mtext.   *)
Shown(m) == IF EndsText THEN {m.len} ELSE m.len .. MAXMSZ

Init == /\ prog \in Programs
        /\ sent = [i \in Queues |-> <<>>] /\ queue = [i \in Queues |-> <<>>]
        /\ helper = [i \in Queues |-> [at |-> "msgrcv", m |-> NoMsg]]
        /\ chan = [i \in Queues |-> <<>>]
        /\ main = [at |-> "poll", revents |-> {}, i |-> 1]
        /\ printed = [i \in Queues |-> <<>>]
        /\ text = [i \in Queues |-> <<>>] /\ spurious = 0

----------------------------------------------------------------------------
(* sendmsg copies at most MAXMSZ - 1 characters of its argument.             *)
nbytes(n) == IF n < MAXMSZ THEN n ELSE MAXMSZ - 1

Total == LET S[i \in 0 .. NQ] == IF i = 0 THEN 0 ELSE Len(sent[i]) + S[i - 1] IN S[NQ]

sendmsg(i, n) == /\ Total < MaxMsg
                 /\ sent' = [sent EXCEPT ![i] = Append(@, nbytes(n))]
                 /\ queue' = [queue EXCEPT ![i] = Append(@, [id |-> Len(sent[i]) + 1, len |-> nbytes(n)])]
                 /\ UNCHANGED <<prog, helper, chan, main, printed, text, spurious>>

(* msgrcv; in pollmsg2 it overwrites the message main is shown.              *)
msgrcv(i) == /\ helper[i].at = "msgrcv" /\ queue[i] # <<>>
             /\ helper' = [helper EXCEPT ![i] = [at |-> "write", m |-> Head(queue[i])]]
             /\ queue' = [queue EXCEPT ![i] = Tail(@)]
             /\ UNCHANGED <<prog, sent, chan, main, printed, text, spurious>>

(* The writes; exercise_1a makes two, one after the other.  In pollmsg2 the  *)
(* helper holds the mutex from before its write until it waits.              *)
write(i) ==
  /\ helper[i].at \in {"write", "text"}
  /\ LET w == Pass(helper[i].m)
         k == IF helper[i].at = "text" THEN 2 ELSE 1
     IN /\ chan' = [chan EXCEPT ![i] = Append(@, w[k])]
        /\ helper' = [helper EXCEPT ![i].at = CASE k < Len(w) -> "text"
                                                [] prog = "pollmsg2" -> "towait"
                                                [] OTHER -> "msgrcv"]
  /\ UNCHANGED <<prog, sent, queue, main, printed, text, spurious>>

cond_wait(i) == /\ helper[i].at = "towait"
                /\ helper' = [helper EXCEPT ![i].at = "wait"]
                /\ UNCHANGED <<prog, sent, queue, chan, main, printed, text, spurious>>

Spurious(i) == /\ helper[i].at = "wait" /\ spurious < MaxSpurious
               /\ spurious' = spurious + 1
               /\ helper' = [helper EXCEPT ![i].at = "msgrcv"]
               /\ UNCHANGED <<prog, sent, queue, chan, main, printed, text>>

----------------------------------------------------------------------------
(* poll waits until a descriptor can be read; main then goes through all.    *)
poll == /\ main.at = "poll"
        /\ \E i \in Queues : chan[i] # <<>>
        /\ main' = [at |-> "scan", i |-> 1, revents |-> {i \in Queues : chan[i] # <<>>}]
        /\ UNCHANGED <<prog, sent, queue, helper, chan, printed, text, spurious>>

NextQueue == IF main.i = NQ THEN [main EXCEPT !.at = "poll", !.revents = {}, !.i = 1]
                            ELSE [main EXCEPT !.at = "scan", !.i = @ + 1]

Skip == /\ main.at = "scan" /\ main.i \notin main.revents
        /\ main' = NextQueue
        /\ UNCHANGED <<prog, sent, queue, helper, chan, printed, text, spurious>>

(* Read from the descriptor; the length of exercise_1a and the byte of       *)
(* pollmsg2 come before what is printed.                                     *)
read == LET i == main.i IN
  /\ main.at \in {"scan", "text"} /\ i \in main.revents
  /\ chan[i] # <<>>
  /\ chan' = [chan EXCEPT ![i] = Tail(@)]
  /\ \/ /\ prog = "exercise_1a" /\ main.at = "scan"
        /\ main' = [main EXCEPT !.at = "text"]
        /\ UNCHANGED <<printed, text>>
     \/ /\ prog = "pollmsg2"
        /\ main' = [main EXCEPT !.at = "print"]
        /\ UNCHANGED <<printed, text>>
     \/ /\ prog # "pollmsg2" /\ (prog = "exercise_1a" => main.at = "text")
        /\ printed' = [printed EXCEPT ![i] = Append(@, Head(chan[i]).id)]
        /\ \E n \in Shown(Head(chan[i])) : text' = [text EXCEPT ![i] = Append(@, n)]
        /\ main' = NextQueue
  /\ UNCHANGED <<prog, sent, queue, helper, spurious>>

(* pollmsg2 ends and prints the helper's own message, without the mutex,     *)
Put == /\ main.at = "print"
       /\ printed' = [printed EXCEPT ![main.i] = Append(@, helper[main.i].m.id)]
       /\ text' = [text EXCEPT ![main.i] = Append(@, helper[main.i].m.len)]
       /\ main' = [main EXCEPT !.at = "signal"]
       /\ UNCHANGED <<prog, sent, queue, helper, chan, spurious>>

(* then takes it and signals: the mutex is free once the helper waits.  A    *)
(* helper that is past its wait misses the signal.                           *)
cond_signal_early == /\ main.at = "signal"
                     /\ helper' = [helper EXCEPT ![main.i].at = IF @ = "wait" THEN "msgrcv" ELSE @]
                     /\ main' = NextQueue
                     /\ UNCHANGED <<prog, sent, queue, chan, printed, text, spurious>>
cond_signal == /\ main.at = "signal" /\ helper[main.i].at # "towait"
               /\ helper' = [helper EXCEPT ![main.i].at = IF @ = "wait" THEN "msgrcv" ELSE @]
               /\ main' = NextQueue
               /\ UNCHANGED <<prog, sent, queue, chan, printed, text, spurious>>

Main      == poll \/ Skip \/ read \/ Put \/ cond_signal
Helper(i) == msgrcv(i) \/ write(i) \/ cond_wait(i)

Next == \/ Main
        \/ \E i \in Queues : Helper(i) \/ Spurious(i)
        \/ \E i \in Queues, n \in {0, MAXMSZ} : sendmsg(i, n)

----------------------------------------------------------------------------
(* What is printed for a queue is what was sent to it, in order and whole;   *)
(* exercise_1b prints every message in order, but more than was sent may     *)
(* come after its text.  pollmsg2 waits on its condition variable without a  *)
(* predicate: this holds there only while no wait returns by itself.         *)
PrintedAsSent ==
  spurious = 0 =>
    \A i \in Queues : \A k \in DOMAIN printed[i] :
      /\ printed[i][k] = k
      /\ IF EndsText THEN text[i][k] = sent[i][k] ELSE text[i][k] >= sent[i][k]

(* The null main stores after a text stays inside its array: there is no     *)
(* room for one after MAXMSZ bytes, and only sendmsg's limit prevents them.  *)
NoOverrun == EndsText => \A i \in Queues : \A k \in DOMAIN text[i] : text[i][k] < MAXMSZ

(* A message that was sent and is not printed yet.                           *)
Unprinted == spurious = 0 /\ \E i \in Queues : Len(printed[i]) < Len(sent[i])
=============================================================================
