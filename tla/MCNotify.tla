------------------------------- MODULE MCNotify -------------------------------
\* Notify with a channel of each sort: ntfy, whose host may not resolve, and a plain one.
EXTENDS Notify, TLC

CONSTANTS ntfy, email

TwoChannels == <<email, ntfy>>
Symmetric == Permutations(Device)
=============================================================================
