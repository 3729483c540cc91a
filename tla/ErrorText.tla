------------------------------- MODULE ErrorText -------------------------------
(***************************************************************************)
(* errors.rs: what an error of iceberg-rust looks like once it is a         *)
(* condition in R.  scrub() takes the values of credentials out of a text   *)
(* that somebody else wrote and leaves its other words alone.               *)
(*                                                                          *)
(* A text is a sequence of marks.  A word is a mark, and "key" is a word    *)
(* that names a credential; "word" and "secret" are the same to the code.   *)
(* "://" is one mark, which follows neither a key nor an authority, and     *)
(* "escaped" is a quote after a backslash, which only quoted values have;   *)
(* "space" is white space.                                                  *)
(***************************************************************************)
EXTENDS Integers, Sequences

Words == {"word", "secret", "key"}
Redacted == "<redacted>"

\* The first place from i on with one of these marks, or the end of the text.
First(t, i, marks) ==
    CHOOSE j \in i..(Len(t) + 1) :
        /\ \A h \in i..(j - 1) : t[h] \notin marks
        /\ j <= Len(t) => t[j] \in marks

\* The first place from i on that is no space.
AfterSpaces(t, i) ==
    CHOOSE j \in i..(Len(t) + 1) :
        /\ \A h \in i..(j - 1) : t[h] = "space"
        /\ j <= Len(t) => t[j] # "space"

At(t, i, marks) == i \in 1..Len(t) /\ t[i] \in marks

\* The text with another in place of its cuts, each a first and a last place;
\* of cuts that begin together the shortest counts, and one that starts inside
\* another is covered by it.
Without(t, cuts, instead) ==
    LET ends(i) == {c[2] : c \in {d \in cuts : d[1] = i}}
        end(i) == CHOOSE e \in ends(i) : \A f \in ends(i) : e <= f
        from[i \in 1..(Len(t) + 1)] ==
            IF i > Len(t) THEN <<>>
            ELSE IF ends(i) = {} THEN <<t[i]>> \o from[i + 1]
            ELSE instead \o from[end(i) + 1]
    IN  from[1]

\* What comes before the last @ of each URL's authority.
userinfos(t) ==
    LET ats(i) == {j \in (i + 1)..(First(t, i + 1, {"/", "space"}) - 1) : t[j] = "@"}
        last(i) == CHOOSE j \in ats(i) : \A h \in ats(i) : h <= j
    IN  {<<i + 1, last(i)>> : i \in {h \in 1..Len(t) : t[h] = "://" /\ ats(h) # {}}}

scrub_userinfo(t) == Without(t, userinfos(t), <<Redacted, "@">>)

\* BUG: space after `=` is the value.
value_of_key_close(t, k) ==
    LET quoted_key == At(t, k + 1, {"quote"})
        sep == AfterSpaces(t, IF quoted_key THEN k + 2 ELSE k + 1)
        start == IF quoted_key THEN AfterSpaces(t, sep + 1) ELSE sep + 1
        quoted == At(t, start, {"quote"})
    IN  IF At(t, k - 1, Words) \/ ~At(t, sep, {"=", ":"}) THEN {}
        ELSE IF quoted THEN {<<start + 1, First(t, start + 1, {"quote"}) - 1>>}
        ELSE {<<start, First(t, start, {"&", "quote", "space"}) - 1>>}

\* The value that the key at place k has, if any.  A quoted key closes its
\* quote before `=` or `:`; space may follow `=`, and `:` after a quoted key.
value_of_key(t, k) ==
    LET quoted_key == At(t, k + 1, {"quote"})
        sep == AfterSpaces(t, IF quoted_key THEN k + 2 ELSE k + 1)
        start == IF quoted_key \/ At(t, sep, {"="}) THEN AfterSpaces(t, sep + 1) ELSE sep + 1
        quoted == At(t, start, {"quote"})
    IN  IF At(t, k - 1, Words) \/ ~At(t, sep, {"=", ":"}) THEN {}
        ELSE IF quoted THEN {<<start + 1, First(t, start + 1, {"quote"}) - 1>>}
        ELSE {<<start, First(t, start, {"&", "quote", "space"}) - 1>>}

\* A value with nothing in it is none.
values_of_keys(t) ==
    {c \in UNION {value_of_key(t, k) : k \in {i \in 1..Len(t) : t[i] = "key"}} : c[1] <= c[2]}

scrub_params(t) == Without(t, values_of_keys(t), <<Redacted>>)

scrub(t) == scrub_params(scrub_userinfo(t))

-----------------------------------------------------------------------------
(* Texts as they are met, in pieces: what each says, and what R may see.    *)

Piece(text, shown) == [text |-> text, shown |-> shown]
Same(text) == Piece(text, text)

URL(authority) == <<"://">> \o authority \o <<"/", "word">>

Pieces ==
    LET R == Redacted IN
    { Same(<<"word">>), Same(<<"key">>), Same(URL(<<"word">>)),
      Piece(URL(<<"secret", "@", "word">>), URL(<<R, "@", "word">>)),
      Piece(URL(<<"secret", "@", "secret", ":", "secret", "@", "word">>), URL(<<R, "@", "word">>)),
      Piece(<<"key", "=", "secret">>, <<"key", "=", R>>),
      Piece(<<"key", "space", "=", "space", "secret">>, <<"key", "space", "=", "space", R>>),
      Piece(<<"key", ":", "secret">>, <<"key", ":", R>>),
      Piece(<<"key", "=", "quote", "secret", "space", "secret", "quote">>,
            <<"key", "=", "quote", R, "quote">>),
      Piece(<<"quote", "key", "quote", ":", "space", "quote", "secret", "escaped", "secret", "quote">>,
            <<"quote", "key", "quote", ":", "space", "quote", R, "quote">>),
      \* `password: too short` and `my_password_hint=abc`
      Same(<<"key", ":", "space", "word">>), Same(<<"word", "key", "=", "word">>) }

Join(a, sep, b) ==
    Piece(a.text \o <<sep>> \o b.text, a.shown \o <<sep>> \o b.shown)

Joined(S) == {Join(a, sep, b) : a \in S, sep \in {"space", "&"}, b \in Pieces}

\* Bound: texts of up to three pieces.
Texts == LET Two == Joined(Pieces) IN Pieces \cup Two \cup Joined(Two)
=============================================================================
