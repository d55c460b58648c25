------------------------------- MODULE Pipes -------------------------------
(* Programs in which a parent and the child it forks share pipes: the pager  *)
(* of ipc1/pipe2.c and Chapter15, the coprocess of ipc1/pipe4.c with add2.c  *)
(* or add2stdio.c, and exercise 15.7, which only waits for the other end to  *)
(* be closed.  A line is its number; the ends of the pipes a process holds   *)
(* are kept for both, because an end left open is what makes a reader wait.  *)
EXTENDS Naturals, Sequences

CONSTANTS NLines,       \* lines of the file, or of standard input
          Room          \* lines a pipe holds

VARIABLES prog,         \* the program
          par, chd,     \* where parent and child are
          next,         \* the line the parent is at
          ends,         \* open ends, as <<process, pipe, "r" or "w">>
          pipe,         \* the two pipes: "to" the child and "from" it
          buf,          \* the child's line, and what its stdio has kept back
          seen          \* what the reader at the end of the chain got

vars == <<prog, par, chd, next, ends, pipe, buf, seen>>

Both == {"parent", "child"}

(* What the programs differ in: which ends a parent and a child close after  *)
(* fork, whether the parent closes the write end after the last line and     *)
(* waits for the child, and what the child runs.                             *)
Pager == [kind |-> "pager", run |-> "pager", parent |-> {<<"to", "r">>}, child |-> {<<"to", "w">>},
          done |-> {<<"to", "w">>}, waits |-> TRUE]
Coprocess(run) == [kind |-> "coprocess", run |-> run, parent |-> {<<"to", "r">>, <<"from", "w">>},
                   child |-> {<<"to", "w">>, <<"from", "r">>}, done |-> {}, waits |-> FALSE]
Select(mine, other) == [kind |-> mine, run |-> "sleep", parent |-> {<<"to", other>>}, child |-> {},
                        done |-> {}, waits |-> FALSE]

pipe2        == Pager
figure_15_6  == Pager
exercise_1   == [Pager EXCEPT !.done = {}]
exercise_2   == [Pager EXCEPT !.waits = FALSE]
pipe4        == Coprocess("add2")
pipe4_stdio  == Coprocess("add2stdio")
figure_15_18 == Coprocess("add2")
exercise_4   == Coprocess("add2")
exercise_5   == Coprocess("add2")
exercise_7a  == Select("r", "w")
exercise_7b  == Select("w", "r")
exercise_7c  == Select("r", "w")
exercise_7d  == Select("w", "r")

Programs == {pipe2, figure_15_6, exercise_1, exercise_2, pipe4, pipe4_stdio, figure_15_18,
             exercise_4, exercise_5, exercise_7a, exercise_7b, exercise_7c, exercise_7d}

PipesAssumption == {NLines, Room} \subseteq Nat \ {0}

AllEnds == {"to", "from"} \X {"r", "w"}

Init == /\ prog \in Programs
        /\ par = "close" /\ chd = "close" /\ next = 1
        /\ ends = {<<q, e[1], e[2]>> : q \in Both, e \in AllEnds}
        /\ pipe = [to |-> <<>>, from |-> <<>>]
        /\ buf = <<>> /\ seen = <<>>

Held(p, e)    == \E q \in Both : <<q, p, e>> \in ends
Without(q, E) == {h \in ends : ~ (h[1] = q /\ <<h[2], h[3]>> \in E)}

(* exit closes what the process still has open.                              *)
exit(q) == ends' = Without(q, AllEnds)

(* write: it waits while the pipe is full, and nobody left to read means     *)
(* SIGPIPE.                                                                  *)
CanWrite(p)  == Len(pipe[p]) < Room /\ Held(p, "r")
EndOfFile(p) == pipe[p] = <<>> /\ ~ Held(p, "w")

----------------------------------------------------------------------------
(* The parent                                                                *)

CloseParent == /\ par = "close"
               /\ ends' = Without("parent", prog.parent)
               /\ par' = IF prog.run = "sleep" THEN "select" ELSE "fgets"
               /\ UNCHANGED <<prog, chd, next, pipe, buf, seen>>

fgets == /\ par = "fgets"
         /\ par' = IF next <= NLines THEN "write" ELSE "eof"
         /\ UNCHANGED <<prog, chd, next, ends, pipe, buf, seen>>

write == /\ par = "write"
         /\ CanWrite("to")
         /\ pipe' = [pipe EXCEPT !.to = Append(@, next)]
         /\ par' = IF prog.kind = "coprocess" THEN "read" ELSE "fgets"
         /\ next' = next + 1
         /\ UNCHANGED <<prog, chd, ends, buf, seen>>

(* SIGPIPE ends the parent: sig_pipe calls exit, and so does the default.    *)
sig_pipe == /\ par = "write"
            /\ ~ Held("to", "r")
            /\ par' = "gone" /\ exit("parent")
            /\ UNCHANGED <<prog, chd, next, pipe, buf, seen>>

read == /\ par = "read"
        /\ pipe.from # <<>>
        /\ seen' = Append(seen, Head(pipe.from))
        /\ pipe' = [pipe EXCEPT !.from = Tail(@)]
        /\ par' = "fgets"
        /\ UNCHANGED <<prog, chd, next, ends, buf>>

ChildClosedPipe == /\ par = "read"
                   /\ EndOfFile("from")
                   /\ par' = "gone" /\ exit("parent")
                   /\ UNCHANGED <<prog, chd, next, pipe, buf, seen>>

Eof == /\ par = "eof"
       /\ IF prog.waits THEN par' = "waitpid" /\ ends' = Without("parent", prog.done)
                        ELSE par' = "gone" /\ exit("parent")
       /\ UNCHANGED <<prog, chd, next, pipe, buf, seen>>

waitpid == /\ par = "waitpid" /\ chd = "gone"
           /\ par' = "gone" /\ exit("parent")
           /\ UNCHANGED <<prog, chd, next, pipe, buf, seen>>

(* select and poll return when a read would see data or the end of the file, *)
(* or when a write would not wait.                                           *)
select == /\ par = "select"
          /\ IF prog.kind = "r" THEN EndOfFile("to") \/ pipe.to # <<>>
                                ELSE CanWrite("to") \/ ~ Held("to", "r")
          /\ par' = "gone" /\ exit("parent")
          /\ UNCHANGED <<prog, chd, next, pipe, buf, seen>>

----------------------------------------------------------------------------
(* The child                                                                 *)

(* It closes its ends, makes the others its standard input and output and    *)
(* becomes the pager or add2; the program may be missing.                    *)
execl == /\ chd = "close"
         /\ \/ chd' = "run" /\ ends' = Without("child", prog.child)
            \/ chd' = "gone" /\ exit("child")
         /\ UNCHANGED <<prog, par, next, pipe, buf, seen>>

Running(names) == chd = "run" /\ prog.run \in names

ReadLine == /\ Running({"pager", "add2", "add2stdio"})
            /\ pipe.to # <<>>
            /\ pipe' = [pipe EXCEPT !.to = Tail(@)]

PagerReads == /\ prog.run = "pager" /\ ReadLine
              /\ seen' = Append(seen, Head(pipe.to))
              /\ UNCHANGED <<prog, par, chd, next, ends, buf>>

(* The user may leave the pager before the end.                              *)
PagerQuits == /\ Running({"pager"})
              /\ chd' = "gone" /\ exit("child")
              /\ UNCHANGED <<prog, par, next, pipe, buf, seen>>

add2 == /\ prog.run = "add2" /\ ReadLine
        /\ buf' = <<Head(pipe.to)>> /\ chd' = "write"
        /\ UNCHANGED <<prog, par, next, ends, seen>>

(* printf to a pipe is fully buffered: nothing is written before exit.       *)
add2stdio == /\ prog.run = "add2stdio" /\ ReadLine
             /\ buf' = Append(buf, Head(pipe.to))
             /\ UNCHANGED <<prog, par, chd, next, ends, seen>>

ChildEof == /\ Running({"pager", "add2", "add2stdio"})
            /\ EndOfFile("to")
            /\ IF buf = <<>> THEN chd' = "gone" /\ exit("child")
                             ELSE chd' = "write" /\ UNCHANGED ends
            /\ UNCHANGED <<prog, par, next, pipe, buf, seen>>

Answer == /\ chd = "write"
          /\ CanWrite("from")
          /\ pipe' = [pipe EXCEPT !.from = Append(@, Head(buf))]
          /\ buf' = Tail(buf)
          /\ IF Len(buf) = 1 THEN chd' = "run" ELSE UNCHANGED chd
          /\ UNCHANGED <<prog, par, next, ends, seen>>

(* exec has set SIGPIPE back to its default.                                 *)
ChildSigpipe == /\ chd = "write"
                /\ ~ Held("from", "r")
                /\ chd' = "gone" /\ buf' = <<>> /\ exit("child")
                /\ UNCHANGED <<prog, par, next, pipe, seen>>

(* The child of exercise 15.7 sleeps, and its exit closes both ends.         *)
ChildReturns == /\ Running({"sleep"})
                /\ chd' = "gone" /\ exit("child")
                /\ UNCHANGED <<prog, par, next, pipe, buf, seen>>

----------------------------------------------------------------------------
Parent == \/ CloseParent \/ fgets \/ write \/ sig_pipe \/ read \/ ChildClosedPipe
          \/ Eof \/ waitpid \/ select
Child  == \/ execl \/ PagerReads \/ add2 \/ add2stdio
          \/ ChildEof \/ Answer \/ ChildSigpipe \/ ChildReturns

Next == Parent \/ Child \/ PagerQuits

----------------------------------------------------------------------------
(* Every answer the parent of a coprocess prints is the one to the question  *)
(* it has just asked, whatever becomes of the child, and a pager is shown    *)
(* the lines in order and meets the end of the file after the last one.      *)
LinesInOrder ==
  /\ \A i \in DOMAIN seen : seen[i] = i
  /\ prog.kind = "coprocess" /\ par \in {"fgets", "write"} => Len(seen) = next - 1
  /\ Running({"pager"}) /\ par = "waitpid" /\ EndOfFile("to") => Len(seen) = NLines

(* Who waits for the other process: in write, read, waitpid or select.  Not  *)
(* so in exercise 15.1, where the pager never sees the end of the file and   *)
(* may be left running for ever, nor with add2stdio, whose answer stays in   *)
(* its buffer.                                                               *)
Waits == /\ prog # exercise_1 /\ prog.run # "add2stdio"
         /\ par \in {"write", "read", "waitpid", "select"}
=============================================================================
