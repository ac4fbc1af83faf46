----------------------------- MODULE MCTuiTurns -----------------------------
(* Lines for the kinds of turn that leave something behind. *)
EXTENDS TuiTurns, TLC

CONSTANTS ask, later, shell, chat, safety, profile, attach, p1, p2

AnyLine ==
    shell :> [kind |-> "shell", arg |-> None] @@
    chat :> [kind |-> "chat", arg |-> None] @@
    ask :> [kind |-> "text", arg |-> None] @@
    later :> [kind |-> "text", arg |-> None] @@
    safety :> [kind |-> "safety", arg |-> "plan"] @@
    profile :> [kind |-> "profile", arg |-> p2] @@
    attach :> [kind |-> "d3", arg |-> p1]

WhatLines == [l \in Lines |-> AnyLine[l]]
=============================================================================
