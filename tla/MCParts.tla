------------------------------ MODULE MCParts ------------------------------
(* A small instance of each of the parts. *)
EXTENDS Parts

CONSTANTS p, q, i1, i2, i3, ls, who, page1, page2, home, work, chat, write, look

\* The proportions of the code: the larger budget holds three of the largest
\* messages, the reduced one as many that are cut to half.
UsualBudget == [size |-> 6, messages |-> 5, each |-> 2]
ReducedBudget == [size |-> 3, messages |-> 3, each |-> 1]

\* Answers with calls one after the other, interleaved, without arguments, and
\* in a final message.
Line(k, c) == [kind |-> k, call |-> c]
StreamAnswers == {
    <<Line("text", Default), Line("call", write), Line("args", write), Line("args", write),
      Line("call", look), Line("args", look), Line("done", Default)>>,
    <<Line("call", write), Line("call", look), Line("args", write), Line("args", look),
      Line("args", write)>>,
    <<Line("call", write), Line("call", look), Line("done", Default)>>,
    <<Line("text", Default), Line("message", write), Line("message", look)>>}

\* Pages are alike, and browsers.
Symmetric == Permutations(Pages) \cup Permutations(Browsers)
=============================================================================
