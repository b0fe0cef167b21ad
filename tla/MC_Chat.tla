------------------------------- MODULE MC_Chat -------------------------------
EXTENDS ChatDelivery, TLC
CONSTANTS s1, u1, u2
Realtime == <<"message.realtime">>
Both == <<"message.realtime", "message.notifications">>
Symmetry == Permutations(Users)
=============================================================================
