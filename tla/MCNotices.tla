----------------------------- MODULE MCNotices -----------------------------
EXTENDS Notices

\* A post and a reply to it.
TwoPosts == <<[author |-> 1, parent |-> 0], [author |-> 2, parent |-> 1]>>
OnePair == {<<1, 2>>}
=============================================================================
