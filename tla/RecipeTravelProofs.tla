------------------------- MODULE RecipeTravelProofs -------------------------
(***************************************************************************)
(* A recipe's way from a file to a kitchen, for any nodes, any recipe files *)
(* and any starts of the nodes: what a lookup returns is a text a node has  *)
(* (RecipeLookupProofs), and that text reads back as the recipe it was      *)
(* printed from (RecipeDslProofs).                                          *)
(***************************************************************************)
EXTENDS RecipeTravel, RecipeLookupProofs, RecipeDslProofs

\* The recipes of a file, and the first of them under a name.
FileOf(s) == LoadedFile[s].value
IsFirst(s, i, name) ==
    /\ i \in DOMAIN FileOf(s) /\ FileOf(s)[i].name = name
    /\ \A j \in 1 .. i - 1 : FileOf(s)[j].name # name
AllReadBack(r) == \A k \in DOMAIN r.steps : ReadsBack(r.steps[k])

\* Nodes run with the files that load.
LEMMA LoadedRuns ==
  ASSUME TypeOK, NEW n \in Nodes, NEW g \in 1 .. Current(n)
  PROVE  runs[n][g] \in Loads
BY TypeParts DEF NodesOK, Current

\* A file that loads is a text of tokens that parses.
LEMMA FilesLoad ==
  ASSUME NEW s \in Loads
  PROVE  /\ s \in LoadedSetups
         /\ Text[s] \in Seq(Token)
         /\ LoadedFile[s] = ParseRecipes(Text[s]) /\ IsOk(ParseRecipes(Text[s]))
         /\ \E m : IsFile(FileOf(s), m)
<1>1. s \in LoadedSetups
  BY FilesAssumption
<1>2. s \in Setups /\ LoadedFile[s] = ParseRecipes(Text[s]) /\ IsOk(LoadedFile[s])
  BY <1>1 DEF LoadedSetups, LoadedFile
<1>3. Text[s] \in Seq(Token)
  <2>1. Text[s] \in Seq(STRING)
    BY <1>2, FilesAssumption
  <2> QED BY <2>1 DEF Token
<1>4. \E m : IsFile(ParseRecipes(Text[s]).value, m)
  BY <1>2, <1>3, FileRead
<1> QED BY <1>1, <1>2, <1>3, <1>4 DEF FileOf

\* Each of its recipes reads back.
LEMMA FileReadsBack ==
  ASSUME NEW s \in Loads, NEW i \in DOMAIN FileOf(s), AllReadBack(FileOf(s)[i])
  PROVE  ParseRecipes(FileOf(s)[i].source) = Ok(<<FileOf(s)[i]>>)
<1>1. /\ Text[s] \in Seq(Token) /\ IsOk(ParseRecipes(Text[s]))
      /\ FileOf(s) = ParseRecipes(Text[s]).value
  BY FilesLoad DEF FileOf
<1> QED BY <1>1, PrintedReadsBack DEF AllReadBack

\* The text a node hands out reads back as the recipe it has, for every file
\* that loads, well written or not, but for the spellings of ReadsBack
\* (to_dsl_string, parse_recipe).
THEOREM SourcesReadBack == Spec => []SourceReadsBack
<1>1. ASSUME NEW s \in Loads PROVE SourceIsRecipe[s]
  <2>1. \A i \in DOMAIN FileOf(s) :
          AllReadBack(FileOf(s)[i]) =>
            ParseRecipes(FileOf(s)[i].source) = Ok(<<FileOf(s)[i]>>)
    BY FileReadsBack
  <2>2. s \in LoadedSetups
    BY FilesLoad
  <2> QED BY <2>1, <2>2, Zenon DEF SourceIsRecipe, FileOf, AllReadBack
<1>2. TypeOK => SourceReadsBack
  <2>1. SUFFICES ASSUME TypeOK, NEW n \in Nodes, NEW g \in 1 .. Current(n)
                 PROVE  SourceIsRecipe[runs[n][g]]
    BY Zenon DEF SourceReadsBack
  <2>2. runs[n][g] \in Loads
    BY <2>1, LoadedRuns
  <2> QED BY <1>1, <2>2
<1> QED BY <1>2, LookupTypeCorrect, PTL

\* The first recipe under a name is the one find returns.
LEMMA FirstIsFound ==
  ASSUME NEW s \in Loads, NEW name, NEW i, IsFirst(s, i, name)
  PROVE  SelectInSeq(FileOf(s), LAMBDA r : r.name = name) = i
<1>. DEFINE v == FileOf(s)
            I == {j \in 1 .. Len(v) : v[j].name = name}
            found == SelectInSeq(v, LAMBDA r : r.name = name)
<1>1. /\ i \in DOMAIN v /\ v[i].name = name
      /\ \A j \in 1 .. i - 1 : v[j].name # name
  BY DEF IsFirst
<1>2. PICK m : IsFile(v, m)
  BY FilesLoad
<1>. HIDE DEF v
<1>3. m \in Nat /\ DOMAIN v = 1 .. m /\ Len(v) = m
  <2>1. m \in Nat /\ v = [j \in 1 .. m |-> v[j]]
    BY <1>2 DEF IsFile
  <2>. DEFINE T == {v[j] : j \in 1 .. m}
  <2>2. v \in [1 .. m -> T]
    BY <2>1
  <2>. HIDE DEF T
  <2> QED BY <2>1, <2>2, SequenceOf
<1>4. found = IF I # {} THEN Min(I) ELSE 0
  BY DEF SelectInSeq
<1>5. i \in I /\ I \subseteq Nat /\ \A j \in I : j \in 1 .. m /\ ~(j < i)
  BY <1>1, <1>3
<1>. HIDE DEF I, found
<1>6. Min(I) \in I /\ Min(I) <= i
  BY <1>5, LeastPosition
<1>7. Min(I) = i
  BY <1>1, <1>3, <1>5, <1>6
<1>8. found = i
  BY <1>4, <1>5, <1>7
<1> QED BY <1>8 DEF found, v

\* What a node serves is the text of the first recipe of the name.
LEMMA ServedIsFirst ==
  ASSUME NEW s \in Loads, NEW name, NEW source, Serves(s, name, source)
  PROVE  \E i : IsFirst(s, i, name) /\ FileOf(s)[i].source = source
<1>1. Shelf[s] = [i \in DOMAIN FileOf(s) |-> OnShelf(FileOf(s)[i])]
  <2>1. Shelf = LoadedShelf /\ s \in Setups
    BY FilesAssumption, ShelfAssumption
  <2> QED BY <2>1 DEF LoadedShelf, FileOf
<1>2. \A i \in DOMAIN FileOf(s) : /\ Shelf[s][i].name = FileOf(s)[i].name
                                 /\ Shelf[s][i].source = FileOf(s)[i].source
  BY <1>1 DEF OnShelf
<1>3. PICK i \in DOMAIN Shelf[s] :
        /\ Shelf[s][i].name = name
        /\ Shelf[s][i].source = source
        /\ \A j \in 1 .. i - 1 : Shelf[s][j].name # name
  BY DEF Serves
<1>4. PICK m : IsFile(FileOf(s), m)
  BY FilesLoad
<1>5. DOMAIN FileOf(s) = 1 .. m /\ m \in Nat
  <2>. DEFINE v == FileOf(s)
  <2>1. v = [j \in 1 .. m |-> v[j]] /\ m \in Nat
    BY <1>4 DEF IsFile
  <2>. HIDE DEF v
  <2>2. DOMAIN v = 1 .. m
    BY <2>1
  <2> QED BY <2>1, <2>2 DEF v
<1>6. i \in 1 .. m
  BY <1>1, <1>3, <1>5
<1>7. \A j \in 1 .. i - 1 : FileOf(s)[j].name # name
  <2>1. \A j \in 1 .. i - 1 : j \in 1 .. m
    BY <1>5, <1>6
  <2> QED BY <1>2, <1>3, <1>5, <2>1
<1>8. IsFirst(s, i, name) /\ FileOf(s)[i].source = source
  BY <1>2, <1>3, <1>5, <1>6, <1>7 DEF IsFirst
<1> QED BY <1>8

\* Cooking that text is executing the recipe of the file.
LEMMA CookReadsBack ==
  ASSUME NEW s \in Loads, NEW i \in DOMAIN FileOf(s), AllReadBack(FileOf(s)[i])
  PROVE  Cook(FileOf(s)[i].source, FileOf(s)[i].name) = Ok(Flatten(FileOf(s)[i]))
<1>. DEFINE r == FileOf(s)[i]
            recipes == ParseRecipes(r.source)
            I == {j \in 1 .. Len(<<r>>) : <<r>>[j].name = r.name}
            found == SelectInSeq(recipes.value, LAMBDA x : x.name = r.name)
<1>1. recipes = Ok(<<r>>)
  BY FileReadsBack
<1>. HIDE DEF r
<1>2. IsOk(recipes) /\ recipes.value = <<r>>
  BY <1>1, OkValue
<1>3. I = {1}
  OBVIOUS
<1>4. Min(I) = 1
  <2>1. I # {} /\ I \subseteq Nat
    BY <1>3
  <2>. HIDE DEF I
  <2> QED BY <1>3, <2>1, LeastPosition
<1>5. found = 1
  <2>1. SelectInSeq(<<r>>, LAMBDA x : x.name = r.name) = IF I # {} THEN Min(I) ELSE 0
    BY DEF SelectInSeq
  <2>. HIDE DEF I
  <2>2. I # {}
    BY <1>3
  <2> QED BY <1>2, <1>4, <2>1, <2>2
<1>6. Cook(r.source, r.name) = Ok(Flatten(recipes.value[found]))
  <2>1. found # 0
    BY <1>5
  <2>. HIDE DEF found
  <2>2. IsOk(recipes)
    BY <1>2
  <2> QED BY <2>1, <2>2 DEF Cook, found
<1>7. recipes.value[found] = r
  BY <1>2, <1>5
<1> QED BY <1>6, <1>7 DEF r

\* Every answer a kitchen cooks from is cooked as some file that was loaded says.
CooksTheFile ==
    \A c \in Calls :
      (Used(c) /\ call[c].answer.kind = "RecipeAnswer") =>
        \E p \in Nodes : \E g \in 1 .. Current(p) : \E i :
          /\ runs[p][g] \in Loads
          /\ IsFirst(runs[p][g], i, call[c].name)
          /\ AllReadBack(FileOf(runs[p][g])[i]) =>
               Cook(call[c].answer.source, call[c].name)
                 = Ok(Flatten(FileOf(runs[p][g])[i]))

\* The kitchen that gets a recipe executes, action by action, what the first
\* recipe of that name in some node's file flattens to, through whatever nodes
\* the request went and whoever restarted, but for the spellings of ReadsBack
\* (handle_get_recipe, to_dsl_string, parse_recipe, flatten_recipe).
THEOREM OrdersCookTheFile == Spec => []CooksTheFile
<1>1. TypeOK /\ AnswerIsAHeldRecipe => CooksTheFile
  <2>1. SUFFICES ASSUME TypeOK, AnswerIsAHeldRecipe, NEW c \in Calls,
                        Used(c), call[c].answer.kind = "RecipeAnswer"
                 PROVE  \E p \in Nodes : \E g \in 1 .. Current(p) : \E i :
                          /\ runs[p][g] \in Loads
                          /\ IsFirst(runs[p][g], i, call[c].name)
                          /\ AllReadBack(FileOf(runs[p][g])[i]) =>
                               Cook(call[c].answer.source, call[c].name)
                                 = Ok(Flatten(FileOf(runs[p][g])[i]))
    BY DEF CooksTheFile
  <2>. DEFINE name == call[c].name
              source == call[c].answer.source
  <2>10. PICK p \in Nodes : \E g \in 1 .. Current(p) : Serves(runs[p][g], name, source)
    BY <2>1 DEF AnswerIsAHeldRecipe
  <2>2. PICK g \in 1 .. Current(p) : Serves(runs[p][g], name, source)
    BY <2>10
  <2>. DEFINE s == runs[p][g]
  <2>3. s \in Loads
    BY <2>1, LoadedRuns
  <2>4. PICK i : IsFirst(s, i, name) /\ FileOf(s)[i].source = source
    BY <2>2, <2>3, ServedIsFirst
  <2>5. i \in DOMAIN FileOf(s) /\ FileOf(s)[i].name = name
    BY <2>4 DEF IsFirst
  <2>6. AllReadBack(FileOf(s)[i]) => Cook(source, name) = Ok(Flatten(FileOf(s)[i]))
    BY <2>3, <2>4, <2>5, CookReadsBack
  <2> QED BY <2>3, <2>4, <2>6
<1> QED BY <1>1, AnswersAreHeld, LookupTypeCorrect, PTL

\* Nodes were only started with files that say what their authors mean.
AllWellWritten == \A n \in Nodes : \A g \in 1 .. Current(n) : IsWellWritten(runs[n][g])

\* As long as nodes are started with such files only, the kitchen that gets a
\* recipe executes what the author of some node's file meant by its name.
THEOREM OrdersCookWhatIsMeant == Spec => [](AllWellWritten => OrderCooksWhatWasWritten)
<1>1. CooksTheFile /\ AllWellWritten => OrderCooksWhatWasWritten
  <2>1. SUFFICES ASSUME CooksTheFile, AllWellWritten, NEW c \in Calls,
                        Used(c), call[c].answer.kind = "RecipeAnswer"
                 PROVE  \E p \in Nodes : \E g \in 1 .. Current(p) :
                          /\ runs[p][g] \in DOMAIN Meant
                          /\ call[c].name \in DOMAIN Meant[runs[p][g]]
                          /\ Cook(call[c].answer.source, call[c].name)
                               = Ok(Meant[runs[p][g]][call[c].name])
    BY DEF OrderCooksWhatWasWritten
  <2>. DEFINE name == call[c].name
              source == call[c].answer.source
  <2>. DEFINE Cooked(t, i) ==
                /\ t \in Loads
                /\ IsFirst(t, i, name)
                /\ AllReadBack(FileOf(t)[i]) => Cook(source, name) = Ok(Flatten(FileOf(t)[i]))
  <2>0. \E p \in Nodes : \E g \in 1 .. Current(p) : \E i : Cooked(runs[p][g], i)
    BY <2>1 DEF CooksTheFile
  <2>10. PICK p \in Nodes : \E g \in 1 .. Current(p) : \E i : Cooked(runs[p][g], i)
    BY <2>0
  <2>11. PICK g \in 1 .. Current(p) : \E i : Cooked(runs[p][g], i)
    BY <2>10
  <2>2. PICK i : Cooked(runs[p][g], i)
    BY <2>11
  <2>. DEFINE s == runs[p][g]
              r == FileOf(s)[i]
  <2>3. IsWellWritten(s) /\ s \in Loads /\ IsFirst(s, i, name)
    BY <2>1, <2>2 DEF AllWellWritten
  <2>. HIDE DEF s, name, source
  <2>4. /\ s \in DOMAIN Meant /\ LoadsAsMeant[s] /\ NamesOf(s) \subseteq DOMAIN Meant[s]
        /\ \A j \in DOMAIN FileOf(s) : AllReadBack(FileOf(s)[j])
    BY <2>3 DEF IsWellWritten, FileOf, AllReadBack
  <2>5. i \in DOMAIN FileOf(s) /\ r.name = name
    BY <2>3 DEF IsFirst
  <2>6. Cook(source, name) = Ok(Flatten(r))
    BY <2>2, <2>4, <2>5 DEF s
  <2>7. name \in DOMAIN Meant[s]
    <3>1. Shelf[s] = [j \in DOMAIN FileOf(s) |-> OnShelf(FileOf(s)[j])]
      <4>1. Shelf = LoadedShelf /\ s \in Setups
        BY <2>3, FilesAssumption, ShelfAssumption
      <4> QED BY <4>1 DEF LoadedShelf, FileOf
    <3>2. i \in DOMAIN Shelf[s] /\ Shelf[s][i].name = name
      BY <2>5, <3>1 DEF OnShelf
    <3> QED BY <2>4, <3>2 DEF NamesOf
  <2>8. Flatten(r) = Meant[s][name]
    <3>1. LET k == SelectInSeq(FileOf(s), LAMBDA x : x.name = name)
          IN  k # 0 /\ Flatten(FileOf(s)[k]) = Meant[s][name]
      BY <2>4, <2>7 DEF LoadsAsMeant, FileOf
    <3>2. SelectInSeq(FileOf(s), LAMBDA x : x.name = name) = i
      BY <2>3, FirstIsFound
    <3> QED BY <3>1, <3>2
  <2>9. Cook(source, name) = Ok(Meant[s][name])
    BY <2>6, <2>8
  <2> QED BY <2>4, <2>7, <2>9 DEF s, name, source
<1> QED BY <1>1, OrdersCookTheFile, PTL

=============================================================================
