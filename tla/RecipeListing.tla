--------------------------- MODULE RecipeListing ---------------------------
(***************************************************************************)
(* What a node tells about a recipe and what the screens show of it: the   *)
(* rows of `list_recipes`, their shapes on the wire (src/protocol.rs), the *)
(* two decoders of the client (src/cli/client_impl.rs) and the panel of    *)
(* the TUI (src/tui/ui.rs).                                                *)
(*                                                                         *)
(* Node addresses are numbers, in the order of their texts.                *)
(***************************************************************************)
EXTENDS Integers, Sequences, SequencesExt, FiniteSetsExt

\* An optional field of a message: a sequence of at most one value.
Absent == <<>>
Present(v) == <<v>>

Local(missing) == [kind |-> "Local", missing |-> missing, host |-> Absent]
Remote(host) == [kind |-> "Remote", missing |-> <<>>, host |-> Present(host)]

\* The names of actions outside caps, in recipe order, each where it comes first.
Missing(names, caps) ==
    LET first == {i \in DOMAIN names : /\ names[i] \notin caps
                                       /\ \A j \in 1 .. i - 1 : names[j] # names[i]}
        rank(i) == Cardinality({j \in first : j <= i})
    IN  [k \in 1 .. Cardinality(first) |-> names[CHOOSE i \in first : rank(i) = k]]

\* recipes collected into a map: of equal names the last one stays.
LocalRow(recipes, name, caps) ==
    LET r == recipes[SelectLastInSeq(recipes, LAMBDA x : x.name = name)]
    IN  Local(Missing(r.actions, caps))

\* The answer: own recipes, then those of the others with the least of the
\* addresses that advertised them; adverts[p] are the names p advertised.
WrongAnswerRows(recipes, caps, adverts) == \* the last read wins
    LET own == {recipes[i].name : i \in DOMAIN recipes}
        remote == UNION {adverts[p] : p \in DOMAIN adverts}
    IN  [name \in own \union remote |->
           IF name \in remote THEN Remote(Min({p \in DOMAIN adverts : name \in adverts[p]}))
           ELSE LocalRow(recipes, name, caps)]
AnswerRows(recipes, caps, adverts) ==
    LET own == {recipes[i].name : i \in DOMAIN recipes}
        remote == UNION {adverts[p] : p \in DOMAIN adverts}
    IN  [name \in own \union remote |->
           IF name \in own THEN LocalRow(recipes, name, caps)
           ELSE Remote(Min({p \in DOMAIN adverts : name \in adverts[p]}))]

-----------------------------------------------------------------------------
\* The fields a row may have on the wire, of this version and of older ones.
Wire(local, remote, missing_actions, remote_peers) ==
    [local |-> local, remote |-> remote,
     missing_actions |-> missing_actions, remote_peers |-> remote_peers]

Encode(row) == IF row.kind = "Local"
               THEN Wire(Present(row.missing), Absent, Absent, Absent)
               ELSE Wire(Absent, row.host, Absent, Absent)

OrDefault(field, default) == IF field = Absent THEN default ELSE field[1]

\* Deserialize for RecipeAvailability: the first shape that fits. The two
\* shapes that follow LegacyFlat or repeat `local` fit nothing that is left.
Decode(w) ==
    LET missing == OrDefault(w.missing_actions, <<>>)
        peers == OrDefault(w.remote_peers, {})
    IN  IF w.local # Absent THEN Local(w.local[1])
        ELSE IF w.remote # Absent THEN Remote(w.remote[1])
        ELSE IF missing = <<>> /\ peers # {} THEN Remote(Min(peers))
        ELSE Local(missing)

\* format_recipe_row.
Shown(row) == IF row.kind = "Remote" THEN [at |-> row.host, missing |-> <<>>]
              ELSE [at |-> Absent, missing |-> row.missing]

\* print_recipe_row_compat: the row of the decoder the client falls back to.
CompatShown(w) ==
    LET peers == OrDefault(w.remote_peers, {})
        host == IF w.remote # Absent THEN w.remote
                ELSE IF peers = {} THEN Absent ELSE Present(Min(peers))
        local == OrDefault(w.local, <<>>)
    IN  IF host # Absent THEN [at |-> host, missing |-> <<>>]
        ELSE [at |-> Absent,
              missing |-> IF local # <<>> THEN local
                          ELSE OrDefault(w.missing_actions, <<>>)]

\* format_recipes: the panel shows what the node itself cannot do.
PanelRow(recipe, own) == Missing(recipe.actions, own)
=============================================================================
