---------------------------- MODULE MC_JsAckInfo ----------------------------
(***************************************************************************)
(* Reply subjects for JsAckInfo: ack subjects of 6 to 10 tokens, each a  *)
(* number or the "_" placeholder, which also stands for a name.          *)
(***************************************************************************)
EXTENDS JsAckInfo, TLC

\* Joins tokens with the separator: the inverse of Split.
JoinTokens(ts) ==
    IF ts = <<>> THEN <<>>
    ELSE FoldLeft(LAMBDA acc, t : acc \o <<Dot>> \o t, Head(ts), Tail(ts))

AckSubject(ts) == PREFIX \o JoinTokens(ts)

\* Two kinds of token: a number and the "_" domain placeholder.
Tok2 == {<<"d">>, <<"_">>}

\* Plain ack subjects of 6 to 10 tokens.
PlainReplies == {AckSubject(ts) : ts \in UNION {[1..k -> Tok2] : k \in 6..10}}
=============================================================================
