----------------------------- MODULE MCBRWallet -----------------------------
(* Scenarios for BRWallet: transactions and the outputs they spend. *)
EXTENDS BRWallet

Addr(c, i) == <<c, i>>
Foreign == <<"foreign", 0>>
Out(a, n) == [addr |-> a, amount |-> n]
Funding(n) == {<<"network", n>>}

\* pay funds the wallet, spend and rival (replace-by-fee) both spend its output: through restarts and rescans
ConflictTxs == {"pay", "spend", "rival"}
ConflictInputs == [pay |-> Funding(1), spend |-> {<<"pay", 1>>}, rival |-> {<<"pay", 1>>}]
ConflictOutputs == [pay |-> <<Out(Addr(External, 0), 7)>>,
                    spend |-> <<Out(Foreign, 2), Out(Addr(Internal, 0), 4)>>,
                    rival |-> <<Out(Addr(External, 0), 6)>>]
NoLock(S) == [t \in S |-> 0]
ConflictLockTime == NoLock(ConflictTxs)
SmallGap == [c \in Chains |-> 2]

\* child spends pay's output and has a height lock, rival is another payment that spends what pay spends:
\* one session
FamilyTxs == {"pay", "child", "rival"}
FamilyInputs == [pay |-> Funding(1), child |-> {<<"pay", 1>>}, rival |-> Funding(1)]
FamilyOutputs == [pay |-> <<Out(Addr(External, 0), 7)>>,
                  child |-> <<Out(Foreign, 2), Out(Addr(External, 0), 4)>>,
                  rival |-> <<Out(Addr(External, 0), 3)>>]
FamilyLockTime == [pay |-> 0, child |-> 3, rival |-> 0]

\* two unrelated payments
PaymentTxs == {"pay", "pay2"}
PaymentInputs == [pay |-> Funding(1), pay2 |-> Funding(2)]
PaymentOutputs == [pay |-> <<Out(Addr(External, 0), 7)>>, pay2 |-> <<Out(Addr(External, 1), 2)>>]
PaymentLockTime == NoLock(PaymentTxs)

\* other belongs to strangers, one of whom pays the wallet from it with a time lock
OtherTxs == {"other", "pay"}
OtherInputs == [other |-> Funding(1), pay |-> {<<"other", 1>>}]
OtherOutputs == [other |-> <<Out(Foreign, 9)>>, pay |-> <<Out(Addr(External, 0), 7)>>]
OtherLockTime == [other |-> 0, pay |-> 51]
=============================================================================
