----------------------------- MODULE MCAccounts -----------------------------
\* john, john1, and what a second attempt makes of john1.
EXTENDS Accounts

ThreeNames == {<<>>, <<1>>, <<1, 1>>}

\* The filter may report john1 by accident.
OneAccident == {<<1>>}

\* The program as it is, and with the driver that the unit tests assume.
FourEnvironments == SUBSET {"rebuild overlaps calls", "conflicts name their target"}

\* The program as it is, one call at a time.
OneAtATime == {{"rebuild overlaps calls"}}
=============================================================================
