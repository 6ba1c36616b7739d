---------------------------- MODULE MCSendQueue ----------------------------
(* Instances of SendQueue for TLC. *)
EXTENDS SendQueue

Line(c, t, n, r) == [cmd |-> c, tagged |-> t, len |-> n, rest |-> r]

(* One line of each priority, and the PRIVMSG that irc_message sends with  *)
(* labeled-response; the other is long enough to cost more.                *)
MCLines == {Line("PRIVMSG", FALSE, 490, 480), Line("other", FALSE, 20, 10),
            Line("CHATHISTORY", TRUE, 60, 50), Line("PRIVMSG", TRUE, 80, 60)}

MCBursts == {720}
=============================================================================
