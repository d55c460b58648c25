------------------------------- MODULE MyDup2 -------------------------------
(***************************************************************************)
(* my_dup2 of Chapter03/my_dup2.c: dup2 made of close, dup and a stack of  *)
(* the descriptors in between, which are closed at the end.  Another       *)
(* thread may open a file at any time.  data[] is what malloc returned:    *)
(* elements that were never pushed have any value.                         *)
(***************************************************************************)
EXTENDS Integers, Sequences, FiniteSetsExt

CONSTANTS
  OPEN_MAX,  \* descriptors the process may have
  Garbage,   \* values of elements that were never pushed
  MaxOpen    \* bound on the files the other thread opens

VARIABLES
  arg,     \* oldfd and newfd
  before,  \* the descriptors when my_dup2 was called
  fd,      \* the descriptors now, and their files
  stack,   \* the elements pushed, and size
  pc,      \* where my_dup2 is, or its result
  nopen    \* files the other thread opened

vars == <<arg, before, fd, stack, pc, nopen>>

DupAssumption == OPEN_MAX \in Nat \ {0} /\ MaxOpen \in Nat

Numbers == 0..(OPEN_MAX - 1)
FreeFds == Numbers \ DOMAIN fd
Open(f) == f \in DOMAIN fd
With(f, file) == [g \in DOMAIN fd \cup {f} |-> IF g = f THEN file ELSE fd[g]]
Without(f) == [g \in DOMAIN fd \ {f} |-> fd[g]]

close_newfd(f) == Without(f)

\* The tests, the first dup, and close(newfd); dup fails when oldfd is not
\* open or there is no free descriptor, close for a reason other than EBADF,
\* which need not leave newfd open.
my_dup2 ==
  /\ pc = "call"
  /\ IF arg.oldfd = arg.newfd THEN pc' = "new" /\ UNCHANGED fd
     ELSE IF ~Open(arg.oldfd) \/ FreeFds = {} THEN pc' = "EBADF" /\ UNCHANGED fd
     ELSE \/ pc' = "dup" /\ fd' = close_newfd(arg.newfd)
          \/ pc' = "error" /\ Open(arg.newfd) /\ fd' \in {fd, close_newfd(arg.newfd)}
  /\ UNCHANGED <<arg, before, stack, nopen>>

\* while ((fd = dup(oldfd)) != newfd): a failing dup pushes -1, again and again.
stack_push(x) == [stack EXCEPT !.data = Append(@, x), !.size = @ + 1]

is_newfd(f) == f = arg.newfd

dup ==
  /\ pc = "dup"
  /\ IF FreeFds = {} THEN pc' = "forever" /\ UNCHANGED <<fd, stack>>
     ELSE LET f == Min(FreeFds)
          IN  /\ fd' = With(f, fd[arg.oldfd])
              /\ IF is_newfd(f) THEN pc' = "pop" /\ UNCHANGED stack
                                  ELSE stack' = stack_push(f) /\ UNCHANGED pc
  /\ UNCHANGED <<arg, before, nopen>>

\* data[size--]
stack_pop == IF stack.size < Len(stack.data) THEN {stack.data[stack.size + 1]} ELSE Garbage

close ==
  /\ pc = "pop"
  /\ IF stack.size = 0 THEN pc' = "new" /\ UNCHANGED <<fd, stack>>
     ELSE /\ \E f \in stack_pop : fd' = Without(f)
          /\ stack' = [stack EXCEPT !.size = @ - 1] /\ UNCHANGED pc
  /\ UNCHANGED <<arg, before, nopen>>

\* Another thread, or a signal handler, opens a file that is none of those before.
OtherOpens ==
  /\ pc # "call" /\ nopen < MaxOpen /\ FreeFds # {} /\ nopen' = nopen + 1
  /\ fd' = With(Min(FreeFds), OPEN_MAX)
  /\ UNCHANGED <<arg, before, stack, pc>>

Init ==
  /\ arg \in [oldfd : Numbers, newfd : 0..OPEN_MAX]
  /\ \E S \in SUBSET Numbers : before = [f \in S |-> f]
  /\ fd = before /\ stack = [data |-> <<>>, size |-> 0] /\ pc = "call" /\ nopen = 0

Next == my_dup2 \/ dup \/ close \/ OtherOpens
Spec == Init /\ [][Next]_vars
-----------------------------------------------------------------------------
\* When the call returns newfd is a duplicate of oldfd whatever the other
\* thread has opened, unless an element that was never pushed names newfd.
NewIsOld ==
  pc = "new" /\ arg.oldfd # arg.newfd /\ arg.newfd \notin Garbage =>
    Open(arg.newfd) /\ fd[arg.newfd] = before[arg.oldfd]

\* The loop over dup ends, unless newfd is beyond the limit or another thread
\* took it between close and dup.
LoopEnds == pc = "forever" => arg.newfd >= OPEN_MAX \/ nopen > 0
=============================================================================
