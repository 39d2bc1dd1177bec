----------------------------- MODULE RecipeDsl -----------------------------
(***************************************************************************)
(* The recipe language of src/recipe: parse_recipes, flatten_recipe and    *)
(* to_dsl_string.                                                          *)
(*                                                                         *)
(* A text is a sequence of tokens: the punctuation the parser looks for, a *)
(* repeat suffix `^N` (one token), GAP for a blank line, and words. The     *)
(* parser trims every part it cuts out, so other white space is dropped    *)
(* here. A name or a value is the sequence of the tokens it was cut from,   *)
(* which makes printing it and parsing it again exact.                     *)
(*                                                                         *)
(* Definitions named Wrong... are the code with one plausible mistake.      *)
(***************************************************************************)
EXTENDS Integers, Sequences, SequencesExt, FiniteSetsExt

CONSTANTS
    Repeats, \* the tokens `^N`
    Count,   \* Count[t]: the number N of a repeat token
    MaxCount \* u32::MAX, reduced

GAP == "GAP"
COMMA == ","

ASSUME RepeatAssumption ==
    /\ Repeats \subseteq STRING
    /\ Repeats \intersect {GAP, COMMA, "=", "->", "(", ")", "[", "]"} = {}
    /\ Count \in [Repeats -> Nat]
    /\ MaxCount \in Nat

\* Result<T, ParseError>; "panic" is a slice whose end is before its start.
Ok(v) == [error |-> "none", value |-> v]
Fail(e) == [error |-> e, value |-> <<>>]
IsOk(r) == r.error = "none"

\* The `?` operator: go on with the value, or return the error.
Then(r, Go(_)) == IF IsOk(r) THEN Go(r.value) ELSE r

\* collect::<Result<Vec<_>, _>>(): the values, or the first error.
Collect(results) ==
    LET bad == SelectInSeq(results, LAMBDA r : ~IsOk(r))
    IN  IF bad = 0 THEN Ok([i \in DOMAIN results |-> results[i].value])
        ELSE Fail(results[bad].error)

\* str::find and str::rfind of a token: where it is first, and last; or 0.
Find(s, token) == SelectInSeq(s, LAMBDA t : t = token)
RFind(s, token) == SelectLastInSeq(s, LAMBDA t : t = token)

\* What a loop over the numbers 1 .. n makes of its initial value, after each k.
Scan(n, initial, Step(_, _)) ==
    LET after[k \in 0 .. n] == IF k = 0 THEN initial ELSE Step(k, after[k - 1])
    IN  after

\* The parts of s between the positions in cuts.
Pieces(s, cuts) ==
    Scan(Len(s), << <<>> >>,
         LAMBDA k, parts : IF k \in cuts THEN Append(parts, <<>>)
                           ELSE Append(Front(parts), Append(Last(parts), s[k])))[Len(s)]
Split(s, token) == Pieces(s, {i \in DOMAIN s : s[i] = token})
NonEmpty(parts) ==
    Scan(Len(parts), <<>>,
         LAMBDA k, kept : IF parts[k] = <<>> THEN kept
                          ELSE Append(kept, parts[k]))[Len(parts)]

\* How many parentheses are open after k tokens; a superfluous `)` does not count.
Depth(s) ==
    Scan(Len(s), 0,
         LAMBDA k, depth : IF s[k] = "(" THEN depth + 1
                           ELSE IF s[k] = ")" /\ depth > 0 THEN depth - 1
                           ELSE depth)

-----------------------------------------------------------------------------
\* "k=v, k=v" as a function from keys to values; the last of equal keys wins.
Key(pair) == SubSeq(pair, 1, Find(pair, "=") - 1)
Val(pair) == SubSeq(pair, Find(pair, "=") + 1, Len(pair))
Latest(pairs, key) == SelectLastInSeq(pairs, LAMBDA pair : Key(pair) = key)
ParseParams(s) ==
    LET pairs == Split(s, COMMA)
    IN  IF s = <<>> THEN Ok(<<>>)
        ELSE IF \E i \in DOMAIN pairs : Find(pairs[i], "=") = 0 THEN Fail("MalformedParam")
        ELSE Ok([key \in {Key(pairs[i]) : i \in DOMAIN pairs} |->
                   Val(pairs[Latest(pairs, key)])])

\* "Name" or "Name(k=v)": what follows the last `)` is dropped.
Action(name, params) == [name |-> name, params |-> params]
ParseAction(body) ==
    LET open == Find(body, "(")
        close == RFind(body, ")")
    IN  IF open = 0 THEN Ok(Action(body, <<>>))
        ELSE IF close = 0 THEN Fail("UnmatchedBracket")
        ELSE IF close < open THEN Fail("panic")
        ELSE Then(ParseParams(SubSeq(body, open + 1, close - 1)),
                  LAMBDA params : Ok(Action(SubSeq(body, 1, open - 1), params)))

Single(a) == [kind |-> "Single", actions |-> <<a>>, count |-> 1]
Parallel(as) == [kind |-> "Parallel", actions |-> as, count |-> 1]
Repeated(a, n) == [kind |-> "Repeated", actions |-> <<a>>, count |-> n]

\* The parts of a `[...]` body; a comma inside parentheses does not separate.
WrongSplitParallelActions(s) == NonEmpty(Split(s, COMMA))
SplitParallelActions(s) ==
    LET depth == Depth(s)
    IN  NonEmpty(Pieces(s, {i \in DOMAIN s : s[i] = COMMA /\ depth[i - 1] = 0}))

ParseParallelStep(body) ==
    LET parts == SplitParallelActions(SubSeq(body, 2, Len(body) - 1))
    IN  IF Len(body) < 2 \/ Last(body) # "]" \/ parts = <<>> THEN Fail("UnmatchedBracket")
        ELSE Then(Collect([i \in DOMAIN parts |-> ParseAction(parts[i])]),
                  LAMBDA actions : Ok(Parallel(actions)))

\* find_repeat_caret: the caret and its digits end the step and stand outside
\* parentheses.
HasRepeat(body) ==
    body # <<>> /\ Last(body) \in Repeats /\ Depth(body)[Len(body) - 1] = 0

ParseRepeatedStep(body) ==
    IF Count[Last(body)] \notin 1 .. MaxCount THEN Fail("InvalidRepeat")
    ELSE Then(ParseAction(Front(body)),
              LAMBDA action : Ok(Repeated(action, Count[Last(body)])))

ParseStep(body) ==
    IF body[1] = "[" THEN ParseParallelStep(body)
    ELSE IF HasRepeat(body) THEN ParseRepeatedStep(body)
    ELSE Then(ParseAction(body), LAMBDA action : Ok(Single(action)))

-----------------------------------------------------------------------------
\* Recipe::to_dsl_string. The pairs of an action are printed in the order of
\* their keys; any fixed order will do here.
Join(parts, separator) ==
    Scan(Len(parts), <<>>,
         LAMBDA k, text : IF k = 1 THEN parts[1]
                          ELSE text \o separator \o parts[k])[Len(parts)]

ParamsToDsl(params, separator) ==
    LET keys == SetToSeq(DOMAIN params)
    IN  Join([i \in DOMAIN keys |-> keys[i] \o <<"=">> \o params[keys[i]]], separator)

WrongActionToDsl(a) ==
    a.name \o <<"(">> \o ParamsToDsl(a.params, <<>>) \o <<")">>
ActionToDsl(a) ==
    IF a.params = <<>> THEN a.name
    ELSE a.name \o <<"(">> \o ParamsToDsl(a.params, <<COMMA>>) \o <<")">>

\* The suffix that says n.
Caret(n) == CHOOSE t \in Repeats : Count[t] = n

StepToDsl(step) ==
    LET actions == [i \in DOMAIN step.actions |-> ActionToDsl(step.actions[i])]
    IN  CASE step.kind = "Single" -> actions[1]
          [] step.kind = "Parallel" -> <<"[">> \o Join(actions, <<COMMA>>) \o <<"]">>
          [] step.kind = "Repeated" -> Append(actions[1], Caret(step.count))

ToDsl(name, steps) ==
    name \o <<"=">> \o Join([i \in DOMAIN steps |-> StepToDsl(steps[i])], <<"->">>)

-----------------------------------------------------------------------------
\* parse_recipe, for the many lines of a file and for the one of a message.
ParseRecipe(block) ==
    LET eq == Find(block, "=")
        bodies == NonEmpty(Split(SubSeq(block, eq + 1, Len(block)), "->"))
        name == SubSeq(block, 1, eq - 1)
    IN  IF eq = 0 THEN Fail("MissingEquals")
        ELSE IF eq = 1 THEN Fail("EmptyName")
        ELSE IF bodies = <<>> THEN Fail("NoSteps")
        ELSE Then(Collect([i \in DOMAIN bodies |-> ParseStep(bodies[i])]),
                  LAMBDA steps : Ok([name |-> name, steps |-> steps,
                                     source |-> ToDsl(name, steps)]))

ParseRecipes(text) ==
    LET blocks == NonEmpty(Split(text, GAP))
    IN  Collect([i \in DOMAIN blocks |-> ParseRecipe(blocks[i])])

\* flatten_recipe: the steps in order, a repeated action n times.
WrongFlatten(recipe) ==
    FlattenSeq([i \in DOMAIN recipe.steps |-> recipe.steps[i].actions])
Flatten(recipe) ==
    FlattenSeq([i \in DOMAIN recipe.steps |->
                  FlattenSeq([k \in 1 .. recipe.steps[i].count |->
                                recipe.steps[i].actions])])

-----------------------------------------------------------------------------
\* What prints as something else than itself: an action without parameters
\* prints as its bare name, which vanishes when it is empty and reads as a
\* repetition when it ends in one; and the pairs are printed in the order of
\* their keys, so that a parenthesis in a key or a value changes sides.
ReadsBack(step) ==
    LET Bare(a) == a.params = <<>>
        Clean(s) == \A i \in DOMAIN s : s[i] \notin {"(", ")"}
    IN  /\ \A i \in DOMAIN step.actions :
             LET a == step.actions[i]
             IN  /\ a.name # <<>> \/ ~Bare(a)
                 /\ \A k \in DOMAIN a.params : Clean(k) /\ Clean(a.params[k])
        /\ step.kind = "Single" =>
             LET a == step.actions[1]
             IN  Bare(a) => ~HasRepeat(a.name)
=============================================================================
