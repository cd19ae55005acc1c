----------------------------- MODULE JsAckInfo -----------------------------
(***************************************************************************)
(* Message::jetstream_message_info (src/client.rs): the parser of a        *)
(* JetStream ack reply subject.  A subject is a sequence of symbols: "$JS" *)
(* and "ACK" stand for those words, "d" for a decimal digit, "+" and "_"   *)
(* for themselves, "." for the separator.  Distinct digit strings stand    *)
(* for distinct u64 values; the models use at most two digits, so u64     *)
(* overflow in str::parse cannot occur.                                    *)
(*                                                                         *)
(* The parser is the operator JetStreamMessageInfo, written after the      *)
(* code: split('.') into a 10-slot array, then try_parse! field by field.  *)
(* Reference is the format the code's comments describe: 7 tokens after   *)
(* the prefix for old servers, and 9 or more (domain and account hash     *)
(* first, ">= to be future-proof") with an optional trailing token.        *)
(* A run picks a reply, parses it once and compares.                       *)
(***************************************************************************)
EXTENDS Naturals, Sequences, SequencesExt

CONSTANTS
    Replies,    \* the reply subjects to parse
    None        \* Option::None

Dot == "."
PREFIX == <<"$JS", Dot, "ACK", Dot>>
SKIP == Len(PREFIX)

\* str::split('.'): the pieces between separators, empty ones included.
RECURSIVE Split(_)
Split(s) ==
    IF \E i \in DOMAIN s : s[i] = Dot
    THEN LET i == SelectInSeq(s, LAMBDA c : c = Dot)
         IN  <<SubSeq(s, 1, i - 1)>> \o Split(SubSeq(s, i + 1, Len(s)))
    ELSE <<s>>

\* The tokens array: the first 10 pieces of the split; n_tokens is its
\* length.  Further pieces are never looked at.
Tokens(rest) ==
    LET pieces == Split(rest)
    IN  SubSeq(pieces, 1, IF Len(pieces) < 10 THEN Len(pieces) ELSE 10)

\* <u64 as FromStr>: an optional leading '+', then the digits.
Digits(t) == IF t # <<>> /\ Head(t) = "+" THEN Tail(t) ELSE t
IsU64(t) == Digits(t) # <<>> /\ \A i \in DOMAIN Digits(t) : Digits(t)[i] = "d"

\* The domain token "_" stands for no domain.
Domain(t) == IF t = <<"_">> THEN None ELSE t

Str == "str"
Num == "num"

\* The try_parse! calls of the two branches, in order.  In the first one
\* the trailing token is try_parse!(str) under "if n_tokens >= 9", which
\* always holds there.
V2Kinds == <<Str, Str, Str, Str, Num, Num, Num, Num, Num, Str>>
V1Kinds == <<Str, Str, Num, Num, Num, Num, Num>>

\* The try_parse! chain succeeds: no slot it takes is empty and every
\* number parses; otherwise it returns None at the first failure.
TryParse(toks, kinds) ==
    /\ Len(toks) >= Len(kinds)
    /\ \A i \in DOMAIN kinds : kinds[i] = Num => IsU64(toks[i])

\* The fields stream .. pending, from the token at index first.
Fields(toks, kinds, first) ==
    [i \in 1..7 |-> IF kinds[first + i - 1] = Num
                    THEN Digits(toks[first + i - 1])
                    ELSE toks[first + i - 1]]

MsgInfo(dom, acc, f, tok) ==
    [domain |-> dom, acc_hash |-> acc, stream |-> f[1], consumer |-> f[2],
     delivered |-> f[3], stream_seq |-> f[4], consumer_seq |-> f[5],
     published |-> f[6], pending |-> f[7], token |-> tok]

JetStreamMessageInfo(reply) ==
    IF reply = None \/ ~IsPrefix(PREFIX, reply) THEN None
    ELSE
    LET toks == Tokens(SubSeq(reply, SKIP + 1, Len(reply)))
        n == Len(toks)
    IN  IF n >= 9
        THEN IF TryParse(toks, V2Kinds)
             THEN MsgInfo(Domain(toks[1]), toks[2], Fields(toks, V2Kinds, 3),
                          toks[10])
             ELSE None
        ELSE IF n = 7 /\ TryParse(toks, V1Kinds)
             THEN MsgInfo(None, None, Fields(toks, V1Kinds, 1), None)
             ELSE None

-----------------------------------------------------------------------------
(* The reference, with number syntax and value of its own.                 *)
RefNumber(t) ==
    /\ t # <<>> /\ t # <<"+">>
    /\ \A i \in DOMAIN t : t[i] = "d" \/ (i = 1 /\ t[i] = "+")
RefValue(t) == SelectSeq(t, LAMBDA c : c # "+")

Reference(reply) ==
    IF reply = None \/ ~IsPrefix(PREFIX, reply) THEN None
    ELSE
    LET t == Split(SubSeq(reply, SKIP + 1, Len(reply)))
    IN  CASE Len(t) >= 9 /\ \A i \in 5..9 : RefNumber(t[i]) ->
               [domain |-> IF t[1] = <<"_">> THEN None ELSE t[1],
                acc_hash |-> t[2], stream |-> t[3], consumer |-> t[4],
                delivered |-> RefValue(t[5]), stream_seq |-> RefValue(t[6]),
                consumer_seq |-> RefValue(t[7]), published |-> RefValue(t[8]),
                pending |-> RefValue(t[9]),
                token |-> IF Len(t) >= 10 THEN t[10] ELSE None]
          [] Len(t) = 7 /\ \A i \in 3..7 : RefNumber(t[i]) ->
               [domain |-> None, acc_hash |-> None, stream |-> t[1],
                consumer |-> t[2], delivered |-> RefValue(t[3]),
                stream_seq |-> RefValue(t[4]), consumer_seq |-> RefValue(t[5]),
                published |-> RefValue(t[6]), pending |-> RefValue(t[7]),
                token |-> None]
          [] OTHER -> None

-----------------------------------------------------------------------------
VARIABLES
    reply,      \* Message.reply
    done,       \* jetstream_message_info has returned
    info        \* what it returned

vars == <<reply, done, info>>

Init == reply \in Replies /\ done = FALSE /\ info = None

Parse ==
    /\ ~done
    /\ done' = TRUE
    /\ info' = JetStreamMessageInfo(reply)
    /\ UNCHANGED reply

Spec == Init /\ [][Parse]_vars

(***************************************************************************)
(* Every reply in either documented format is parsed; in particular the   *)
(* ">= 9" branch, which the comment calls the most common case, accepts 9 *)
(* tokens with no trailing token.                                          *)
(***************************************************************************)
WellFormedIsParsed == done => info = Reference(reply)
=============================================================================
