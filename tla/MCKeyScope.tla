----------------------------- MODULE MCKeyScope -----------------------------
(* Small derivations for model-checking KeyScope. *)
EXTENDS KeyScope, TLC

Str(s) == <<s>>
Step(n, l, s, d) == [name |-> n, literal |-> l, scope |-> s, date |-> d]

\* A date rung, a scope rung and a literal rung, as in SigV4.
DateScopeSteps ==
    << Step("date", <<"">>, FALSE, "YYYYMMDD"),
       Step("region", <<"">>, TRUE, ""),
       Step("terminator", Str("req"), FALSE, "") >>

\* Two scope rungs next to each other, then the date.
TwoScopeSteps ==
    << Step("region", <<"">>, TRUE, ""),
       Step("service", <<"">>, TRUE, ""),
       Step("date", <<"">>, FALSE, "YYYY-MM-DD"),
       Step("terminator", Str("req"), FALSE, "") >>

DayOfTime == "t1" :> "d1" @@ "t2" :> "d2"
DateTexts ==
    [x \in {"YYYYMMDD", "YYYY-MM-DD"} \X {"d1", "d2"} |->
        IF x[1] = "YYYYMMDD" THEN Str(x[2]) ELSE Str(x[2] \o "-")]

Prefix == <<"AWS4">>
StrSet == {<<"">>, <<"long">>, <<"a">>, <<"b">>, <<"a", "b">>, <<"b", "a">>, <<"n">>, <<"req">>}
          \union {DateTexts[x] : x \in DOMAIN DateTexts}

Stage(n, f, sc) == [name |-> n, from |-> f, scope |-> sc]
RegionStages == {Stage(<<"n">>, "", "region" :> Str("a"))}
TwoScopeStages ==
    {Stage(<<"n">>, "", "region" :> r @@ "service" :> s) :
        r \in {<<"a">>, <<"a", "b">>}, s \in {<<"a">>, <<"b", "a">>}}
LongNameStages == {Stage(<<"long">>, "", "region" :> Str("a"))}
Strays == {<<"n", "d1", "b", "req">>, <<"n", "d2", "a", "req">>, <<"n", "d1", "a">>}
=============================================================================
