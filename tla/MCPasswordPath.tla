--------------------------- MODULE MCPasswordPath ---------------------------
(* Keys, bytes and messages for TLC.                                       *)
EXTENDS PasswordPath

\* One, two, three and four bytes; a surrogate, beyond Unicode, DEL, a control.
MCKeys   == {97, 233, 8364, 128512, 55296, 1114112, 127, 9}
\* a; the bytes of e acute; CR; newline.
MCTyping == {97, 195, 169, 13, 10}

MCOriginal ==
  {[s \in {"INT", "TERM", "QUIT"} |-> IF s = "QUIT" THEN "ignore" ELSE "default"]}

Says(style) == [style |-> style, text |-> <<>>]
Tells(text) == [style |-> "notice", text |-> text]

MCMessage ==
  {Says("secret"), Says("visible"), Says("other"),
   Tells(<<"x", "x">>), Tells(<<"bad", "x", "bad">>), Tells(<<" ", "x", " ">>),
   Tells(<<" ">>)}
MCCalls == {<<m>> : m \in MCMessage} \cup (MCMessage \X MCMessage)
=============================================================================
