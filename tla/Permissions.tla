---------------------------- MODULE Permissions ----------------------------
(***************************************************************************)
(* The permission policy every D3 command passes (core/permissions.ts).    *)
(* How the text of one TCL line gets its risk is not modelled: a line is   *)
(* its risk.                                                               *)
(***************************************************************************)
EXTENDS Naturals, Sequences

Modes == {"plan", "ask", "trust"}

\* From harmless to dangerous; the order is the code's.
RiskOrder == <<"read", "write", "compile", "destructive", "shell">>
Risks == {RiskOrder[i] : i \in 1..5}

AtLeast(r, s) == \E i, j \in 1..5 : i >= j /\ r = RiskOrder[i] /\ s = RiskOrder[j]

\* The riskiest line decides, a command without lines counts as a write, and
\* on a profile that enters D3 through a host shell every command is a shell
\* command.  lines is the set of the risks of the lines.
CommandRisk(lines, shellTransport) ==
    IF shellTransport THEN "shell"
    ELSE IF lines = {} THEN "write"
    ELSE CHOOSE r \in lines : \A s \in lines : AtLeast(r, s)

\* Mutant: plan mode may ask, as ask mode does.
PermissionPlanAsks(mode, risk) ==
    CASE mode \in {"plan", "ask"} -> IF risk = "read" THEN "allow" ELSE "ask"
      [] mode = "trust" -> IF risk \in {"destructive", "shell"} THEN "confirm" ELSE "allow"

\* evaluateD3Permission
Permission(mode, risk) ==
    CASE mode = "plan"  -> IF risk = "read" THEN "allow" ELSE "deny"
      [] mode = "ask"   -> IF risk = "read" THEN "allow" ELSE "ask"
      [] mode = "trust" -> IF risk \in {"destructive", "shell"} THEN "confirm" ELSE "allow"

\* assertD3Allowed: what becomes of a command, confirmed by a person or not.
Verdict(mode, risk, confirmed) ==
    IF Permission(mode, risk) = "deny" THEN "denied"
    ELSE IF Permission(mode, risk) \in {"ask", "confirm"} /\ ~confirmed THEN "needs approval"
    ELSE "allowed"
=============================================================================
