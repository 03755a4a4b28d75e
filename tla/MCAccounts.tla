----------------------------- MODULE MCAccounts -----------------------------
(* Instances of Accounts: a program and its programdata, an account it may *)
(* own, and a mint.                                                        *)
EXTENDS Accounts, TLC

CONSTANTS prog, pdata, acct, mint, loader, tokens, h1, h2

Plain(owner, ver) ==
  [owner |-> owner, program |-> FALSE, token |-> NoToken, ver |-> ver, lamports |-> 1]
TokenOf(holder, delegate) ==
  [owner |-> tokens, program |-> FALSE, ver |-> 0, lamports |-> 1,
   token |-> [owner |-> holder, mint |-> mint, delegate |-> delegate]]

Program == [owner |-> loader, program |-> TRUE, token |-> NoToken, ver |-> 1, lamports |-> 1]

(* What surfnet_setAccount makes of an unknown account when it is given    *)
(* the owner only, and the programdata of an upload not complete.          *)
OwnerOnly == [Plain(prog, 1) EXCEPT !.lamports = 0]
Incomplete == Plain(loader, 2)

MCSynthetic == Plain(loader, 0)
MCLoadable == {Plain(loader, 0), Plain(loader, 1)}

MCValues ==
  prog  :> {Program} @@
  pdata :> {Plain(loader, 1), Incomplete} @@
  acct  :> {Plain(prog, 1), OwnerOnly, TokenOf(h1, NoKey), TokenOf(h2, h1)} @@
  mint  :> {Plain(tokens, 1)}

MCProgramData == [p \in Pubkeys |-> pdata]

MCRemote ==
  prog :> Program @@
  pdata :> None @@ acct :> TokenOf(h1, NoKey) @@ mint :> None
MCRequests == {<<prog>>, <<acct, mint>>}
=============================================================================
