----------------------------- MODULE MCChannels -----------------------------
(* Two channels, one of them under two spellings and one with a password.  *)
EXTENDS Channels, TLC

Spellings == {"#a", "#A", "#b"}
Folded == [n \in Spellings |-> IF n = "#A" THEN "#a" ELSE n]
TwoNicks == {"schumix", "guest"}
Passwords == {"", "k"}
ChannelKeys == [c \in {"#a", "#b"} |-> IF c = "#b" THEN "k" ELSE ""]
Functions2 == {"parancsok", "rejoin"}
FunctionSets == {{"rejoin"}, {"parancsok", "rejoin"}}
Default == [f \in Functions2 |-> "be"]
OneRow == <<[szoba |-> "#a", jelszo |-> "", funkciok |-> Default, aktivitas |-> "", error |-> ""]>>
=============================================================================
