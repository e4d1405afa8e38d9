---------------------------- MODULE MCToolCalls ----------------------------
(* Model-checking instance of ToolCalls: turns of one user.  A call of     *)
(* unknown effect and, in another Conversation, an external write on the   *)
(* same resource; a client action; a batch of a call of unknown effect and *)
(* a recoverable local one.                                                *)
EXTENDS ToolCalls, TLC

CONSTANTS t1, t2, t3, t4, remote, rival, handoff, mail, invitation, provider

MCOwner == (remote :> t1) @@ (rival :> t2) @@ (handoff :> t3)
           @@ (mail :> t4) @@ (invitation :> t4)
MCEffect == (remote :> "external_write") @@ (rival :> "external_write")
            @@ (handoff :> "client_action")
            @@ (mail :> "unknown") @@ (invitation :> "internal_write")
MCTouches == [c \in Call |-> IF c = invitation THEN {} ELSE {provider}]
MCOrder == [c \in Call |-> IF c = invitation THEN 2 ELSE 1]
MCScripts == {{remote, rival}, {handoff}, {mail, invitation}}
MCLastGeneration == (t1 :> 2) @@ (t2 :> 1) @@ (t3 :> 3) @@ (t4 :> 2)
MCMaxQuestions == (t1 :> 0) @@ (t2 :> 0) @@ (t3 :> 1) @@ (t4 :> 2)
MCMaxLosses == (t1 :> 1) @@ (t2 :> 0) @@ (t3 :> 1) @@ (t4 :> 1)
ClientSymmetry == Permutations(Client)
=============================================================================
