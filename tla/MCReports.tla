------------------------------ MODULE MCReports ------------------------------
(* Two accounts over four days; amounts are in half pesos. *)
EXTENDS Reports

MCClients    == {"c1", "c2"}
MCAssetIds   == <<"$", "AL30", "TX26">>
MCCategoryOf == [a \in ToSet(MCAssetIds) |-> IF a = "$" THEN "ARS" ELSE "BONDS"]

Held(v, u) == <<[value |-> v, units |-> u]>>
Not == <<>>

\* What an account has of an asset on days 1 to 4, and its movements.
Even     == [lots |-> <<Held(8, 4), Held(8, 4), Held(8, 4), Held(8, 4)>>, moves |-> <<>>]
Rising   == [lots |-> <<Held(8, 4), Held(16, 4), Held(32, 4), Held(16, 4)>>, moves |-> <<>>]
Traded   == [lots |-> <<Held(8, 4), Held(16, 8), Held(16, 8), Held(4, 2)>>,
             moves |-> <<<<2, 9, 4, "Boleto">>, <<4, -12, -6, "Liquidación de Rescate">>>>]
Late     == [lots |-> <<Not, Held(8, 4), Held(4, 4), Held(8, 4)>>, moves |-> <<>>]
Gap      == [lots |-> <<Held(8, 4), Not, Held(16, 4), Held(24, 6)>>,
             moves |-> <<<<4, 7, 2, "Retiro de Títulos">>>>]
Tiny     == [lots |-> <<Held(1, 1), Held(8, 4), Held(4, 1), Held(1, 1)>>,
             moves |-> <<<<2, 9, 3, "Boleto">>>>]
Once     == [lots |-> <<Not, Not, Held(8, 4), Not>>, moves |-> <<>>]
Sold     == [lots |-> <<Held(8, 4), Not, Not, Not>>, moves |-> <<<<2, -8, -4, "Boleto">>>>]
TwoLots  == [lots |-> <<Held(4, 4) \o Held(2, 2), Held(8, 8), Held(8, 8), Not>>, moves |-> <<>>]
Never    == [lots |-> <<Not, Not, Not, Not>>, moves |-> <<>>]
Overdrawn == [lots |-> <<Held(8, 8), Held(-4, -4), Held(4, 4), Held(-40, -40)>>, moves |-> <<>>]

Account(has) ==
  [answers |-> [d \in 1 .. 4 |->
     FlattenSeq([i \in DOMAIN MCAssetIds |->
       LET lots == has[MCAssetIds[i]].lots[d] IN
       [j \in DOMAIN lots |-> [asset |-> MCAssetIds[i], value |-> lots[j].value,
                               units |-> lots[j].units]]])],
   ledger |-> FlattenSeq([i \in DOMAIN MCAssetIds |->
       LET moves == has[MCAssetIds[i]].moves IN
       [j \in DOMAIN moves |-> [asset |-> MCAssetIds[i], day |-> moves[j][1], value |-> moves[j][2],
                                units |-> moves[j][3], kind |-> moves[j][4]]]])]

Has(p, a, t) == [i \in ToSet(MCAssetIds) |-> CASE i = "$" -> p [] i = "AL30" -> a [] OTHER -> t]

MCBooks ==
  {("c1" :> Account(Has(p, a, t))) @@ ("c2" :> Account(Has(Never, b, Never))) :
     p \in {Even, Overdrawn}, a \in {Rising, Traded, Gap, Tiny, Once, Sold},
     t \in {Never, Even, Late, Traded, TwoLots}, b \in {Never, Rising, Late}}

Text(w, c, d) == [weeks |-> w, colon |-> c, days |-> d]
MCQueries ==
  {[ids |-> ids, from |-> ft[1], to |-> ft[2], interval |-> text] :
     ids \in {{"c1"}, {"c1", "c2"}}, ft \in {<<1, 4>>, <<2, 4>>},
     text \in {Text(<<0>>, TRUE, <<1>>), Text(<<>>, TRUE, <<2>>)}}
  \cup {[ids |-> {"c1"}, from |-> ft[1], to |-> ft[2], interval |-> text] :
          ft \in {<<1, 4>>, <<3, 2>>}, text \in {Text(<<1>>, FALSE, <<>>), Text(<<>>, FALSE, <<1, 2>>)}}
  \cup {[ids |-> {"c1"}, from |-> ft[1], to |-> ft[2], interval |-> Text(<<>>, FALSE, <<1>>)] :
          ft \in {<<1, 4>>, <<3, 2>>}}
  \cup {[ids |-> {"c1"}, from |-> 1, to |-> 4, interval |-> text] :
          text \in {Text(<<2>>, FALSE, <<>>), Text(<<1>>, TRUE, <<5>>), Text(<<0>>, TRUE, <<0>>),
                    Text(<<>>, TRUE, <<0>>), Text(<<0>>, FALSE, <<>>)}}

MCVariables == ("Inflacion Mensual" :> (2 :> 350)) @@ ("USD A3500" :> (1 :> 4 @@ 2 :> 5))
=============================================================================
