-------------------------- MODULE MCConversations ---------------------------
(* Conversations with a printer, for PrinterStatus. *)
EXTENDS Sequences, Integers

Ok == <<"a1", "a2">>      \* this job, successful
Bad == <<"b1", "b2">>     \* this job, IPP error status
Other == <<"c1", "c2">>   \* a different job number
MCSuccess == Ok
MCFailures == {Bad, Other}

\* Headers before and after Content-Length; the empty line follows.
Before == {<<"n">>, <<"n", "x", "n">>, <<"n", "x", "x", "n">>}
Following == {<<>>, <<"n", "x", "r">>}
Header(b, f) == <<"K">> \o b \o <<"L">> \o f \o <<"n", "r", "n">>
Informational == {<<>>, << <<"I", "n", "r", "n">> >>}

\* A response in one read, or in two: just before or after Content-Length, or
\* between header and answer.
Cut(m, n) == IF n = 0 THEN <<m>> ELSE <<SubSeq(m, 1, n), SubSeq(m, n + 1, Len(m))>>
Answers == {<<Header(b, f), a, {0, Len(b) + 1, Len(b) + 2, Len(Header(b, f))}>> :
              b \in Before, f \in Following, a \in {Ok, Bad, Other}}
Tidy == UNION {{[reads |-> p \o Cut(x[1] \o x[2], n), ok |-> x[2] = Ok] :
                  p \in Informational, n \in x[3]} : x \in Answers}
\* Errors, malformed answers, and printers that fall silent.
Broken == {[reads |-> r, ok |-> FALSE] : r \in
             { << >>, << <<"E", "n", "r", "n">> >>, << <<"Z">>, <<"Z">> >>,
               << <<"K", "n", "x", "r", "n">> >>, << <<"K", "n", "L">> >>,
               << Header(<<"n">>, <<>>) >>, << Header(<<"n">>, <<>>) \o <<"a1">> >> }}
MCTidy == Tidy \cup Broken

\* The same answers, cut anywhere.
MCAnyCut == UNION {{[reads |-> Cut(x[1] \o x[2], n), ok |-> x[2] = Ok] :
                      n \in 1..(Len(x[1]) + 1)} : x \in Answers}
=============================================================================
