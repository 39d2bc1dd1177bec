---------------------------- MODULE RecipeTravel ----------------------------
(***************************************************************************)
(* A recipe's way from a file to a kitchen: the file is parsed by the node *)
(* that starts with it (load_recipes), the canonical text is what peers    *)
(* get, and the node with the order parses and flattens that text.         *)
(***************************************************************************)
EXTENDS RecipeDsl, RecipeLookup

CONSTANTS
    Text, \* Text[s]: the recipe file of setup s, as tokens
    Meant \* Meant[s]: for the files whose author's intention is known, the
          \* actions of each recipe name in the order they are to be executed

\* load_recipes of every setup.
LoadedFile == LET text == Text IN [s \in Setups |-> ParseRecipes(text[s])]
LoadedSetups == LET file == LoadedFile IN {s \in Setups : IsOk(file[s])}

\* What the handlers use of the recipes loaded: NodeState.identity.recipes.
OnShelf(r) == LET todo == Flatten(r)
              IN  [name |-> r.name, source |-> r.source,
                   actions |-> [k \in DOMAIN todo |-> todo[k].name]]
LoadedShelf ==
    LET file == LoadedFile
    IN  [s \in Setups |-> LET recipes == file[s].value
                          IN  [i \in DOMAIN recipes |-> OnShelf(recipes[i])]]

\* The nodes start with these files, and a token is a string.
ASSUME FilesAssumption ==
    /\ Text \in [Setups -> Seq(STRING)]
    /\ Loads = LoadedSetups
    /\ Shelf = LoadedShelf

\* handle_order after the fetch: parse, find the name, flatten.
Cook(source, name) ==
    LET recipes == ParseRecipes(source)
        i == SelectInSeq(recipes.value, LAMBDA r : r.name = name)
    IN  IF ~IsOk(recipes) THEN recipes
        ELSE IF i = 0 THEN Fail("not found after fetch")
        ELSE Ok(Flatten(recipes.value[i]))
-----------------------------------------------------------------------------
\* A file that says what its author means loads, and each of its recipes
\* flattens to the actions meant, however the author spells it: blank lines,
\* empty parentheses, a superfluous comma or arrow (parse_recipes,
\* flatten_recipe).
LoadsAsMeant ==
    [s \in DOMAIN Meant |->
       /\ s \in LoadedSetups
       /\ \A name \in DOMAIN Meant[s] :
            LET i == SelectInSeq(LoadedFile[s].value, LAMBDA r : r.name = name)
            IN  i # 0 /\ Flatten(LoadedFile[s].value[i]) = Meant[s][name]]
WellWrittenFilesLoad ==
    /\ refused \intersect DOMAIN Meant = {}
    /\ \A n \in Nodes : \A g \in 1 .. Current(n) :
         runs[n][g] \in DOMAIN Meant => LoadsAsMeant[runs[n][g]]

\* Such a file, of which every recipe is meant and reads back.
IsWellWritten(s) ==
    /\ s \in DOMAIN Meant /\ LoadsAsMeant[s] /\ NamesOf(s) \subseteq DOMAIN Meant[s]
    /\ \A i \in DOMAIN LoadedFile[s].value :
         \A k \in DOMAIN LoadedFile[s].value[i].steps :
           ReadsBack(LoadedFile[s].value[i].steps[k])

\* The text a node hands out reads back as the recipe it has, for every file
\* that loads, well written or not, but for the spellings of ReadsBack
\* (to_dsl_string, parse_recipe).
SourceIsRecipe ==
    [s \in LoadedSetups |->
       \A i \in DOMAIN LoadedFile[s].value :
         LET r == LoadedFile[s].value[i]
         IN  (\A k \in DOMAIN r.steps : ReadsBack(r.steps[k]))
               => ParseRecipes(r.source) = Ok(<<r>>)]
SourceReadsBack ==
    \A n \in Nodes : \A g \in 1 .. Current(n) : SourceIsRecipe[runs[n][g]]

\* The kitchen that gets a recipe from another node executes what the author of
\* some node's file wrote under that name, action by action, through parsing,
\* printing, forwarding and parsing again.
OrderCooksWhatWasWritten ==
    \A c \in Calls :
      (/\ Used(c) /\ call[c].answer.kind = "RecipeAnswer" /\ ~Abandoned(c)
       /\ call[c].parent = NoCall) =>
        \E p \in Nodes : \E g \in 1 .. Current(p) :
          /\ runs[p][g] \in DOMAIN Meant
          /\ call[c].name \in DOMAIN Meant[runs[p][g]]
          /\ Cook(call[c].answer.source, call[c].name)
               = Ok(Meant[runs[p][g]][call[c].name])
=============================================================================
