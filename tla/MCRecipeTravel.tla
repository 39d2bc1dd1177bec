--------------------------- MODULE MCRecipeTravel ---------------------------
(***************************************************************************)
(* An instance of RecipeTravel for TLC: three files nodes are started and  *)
(* restarted with, and many drafts that a node only reads.                 *)
(***************************************************************************)
EXTENDS RecipeTravel, TLC

SomeRepeats == {"^2", "^0", "^9"}
SomeCount == "^2" :> 2 @@ "^0" :> 0 @@ "^9" :> 9

Act(name) == [name |-> <<name>>, params |-> <<>>]
Act1(name) == [name |-> <<name>>, params |-> <<"k">> :> <<"v">>]
Act2(name) == [name |-> <<name>>, params |-> <<"k">> :> <<"v">> @@ <<"l">> :> <<"w">>]

\* A file with every kind of step, and a file with two other recipes.
Pizza == <<"P", "=", "A", "->", "[", "A", ",", "B", "(", "k", "=", "v", ",",
           "l", "=", "w", ")", "]", "->", "B", "(", "k", "=", "v", ")", "^2">>
Menu == <<<<"Q", "=", "B", "^2", GAP>> \o Pizza, <<"R", "=", "B", "->", "A">>>>
MenuMeant ==
    << <<"Q">> :> <<Act("B"), Act("B")>>
         @@ <<"P">> :> <<Act("A"), Act("A"), Act2("B"), Act1("B"), Act1("B")>>,
       <<"R">> :> <<Act("B"), Act("A")>> >>
MenuSkills == <<{<<"A">>}, {<<"B">>}>>

\* Ways to write a step, and the actions each of them means.
Spellings == <<
    <<<<"A">>, <<Act("A")>>>>,
    <<<<"A", "(", ")">>, <<Act("A")>>>>,
    <<<<"B", "(", "k", "=", "v", ",", "l", "=", "w", ")">>, <<Act2("B")>>>>,
    <<<<"[", "A", ",", "B", "(", "k", "=", "v", ",", "l", "=", "w", ")", "]">>,
      <<Act("A"), Act2("B")>>>>,
    <<<<"[", "B", ",", "A", "(", ")", ",", "]">>, <<Act("B"), Act("A")>>>>,
    <<<<"A", "^2">>, <<Act("A"), Act("A")>>>>,
    <<<<"B", "(", "k", "=", "v", ")", "^2">>, <<Act1("B"), Act1("B")>>>> >>
Heads == << <<GAP, "P", "=">>, <<"Q", "=", "A", GAP, "P", "=", "->">> >>

\* The i-th way to combine an element of s with one of t.
Pairs(s, t) ==
    [i \in 1 .. Len(s) * Len(t) |->
       <<s[1 + ((i - 1) \div Len(t))], t[1 + ((i - 1) % Len(t))]>>]
Books == Pairs(Heads, Pairs(Spellings, Spellings))
BookTexts == [i \in DOMAIN Books |->
                Books[i][1] \o Books[i][2][1][1] \o <<"->">> \o Books[i][2][2][1]]
BookMeant == [i \in DOMAIN Books |->
                <<"P">> :> (Books[i][2][1][2] \o Books[i][2][2][2])]

\* The texts that differ from Pizza in one token, and some more.
Marks == <<"=", "->", "(", ")", "[", "]", ",", GAP, "^2", "^0">>
Places == [i \in DOMAIN Pizza |-> i]
Slips == [i \in DOMAIN Places |-> RemoveAt(Pizza, i)]
           \o [i \in DOMAIN Pairs(Places, Marks) |->
                 ReplaceAt(Pizza, Pairs(Places, Marks)[i][1], Pairs(Places, Marks)[i][2])]
           \o [i \in DOMAIN Pairs(Places, Marks) |->
                 InsertAt(Pizza, Pairs(Places, Marks)[i][1], Pairs(Places, Marks)[i][2])]
           \o << <<"P", "=", "A", ")", "(">>, <<"P", "=", "A", "^9">>,
                 <<"P", "=", "A", "^2", "(", ")">>, <<"P", "=", "(", ")">> >>

Texts == Menu \o BookTexts \o Slips
Meanings == MenuMeant \o BookMeant
MCText == Texts
MCMeant == Meanings
MCLoads == LoadedSetups
MCShelf == LoadedShelf
MCSetups == DOMAIN Texts
MCSkills == [s \in MCSetups |-> IF s \in DOMAIN Menu THEN MenuSkills[s] ELSE {}]
MCNames == {<<"P">>}
MCRegular == DOMAIN Menu

\* Nothing more is done with a draft once it is read.
DraftIsOnlyRead == refused = {} /\ \A n \in Nodes : ToSet(runs[n]) \subseteq DOMAIN Menu
\* Listings and lookups share no state but the tables, which neither changes; a
\* lookup starts at node 1 when the threads of the one before have ended; and at
\* most one abandoned thread is left of it.
OneRequest ==
    /\ listing = Free \/ \A c \in Calls : ~Used(c)
    /\ asker # NoAsker => asker.call = 1 /\ call[1].node = 1
    /\ Cardinality({c \in Calls : Used(c) /\ Abandoned(c)}) <= 1
=============================================================================
