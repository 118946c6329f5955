------------------------------ MODULE Schemas -------------------------------
(***************************************************************************)
(* A program that uses shared/validate: it builds a schema call by call,   *)
(* may go on changing what it handed over (the item schema, the slice of   *)
(* OneOf), and checks values at any time in between.  The fluent methods   *)
(* all return the one schema they change.                                  *)
(***************************************************************************)
EXTENDS Validate

CONSTANTS
    MaxCalls,     \* bound: builder calls on the schema and its item schema
    Bounds,       \* lengths and limits that are passed to Min, Max, Length
    WordSets,     \* arguments of OneOf, Regex and Refine for strings
    NumberSets,   \* those for integers and floats
    ListSets,     \* those of Refine for arrays
    Probe,        \* the strings that are checked
    NoAnswer

ASSUME SchemasAssumption ==
    /\ MaxCalls \in Nat /\ Bounds \subseteq Nat
    /\ Probe \subseteq Word /\ WordSets \subseteq SUBSET Word
    /\ NumberSets \subseteq SUBSET Number
    /\ ListSets \subseteq SUBSET List

VARIABLES
    schema,     \* what the program is building
    item,       \* a string schema it may pass to Items
    slice,      \* its own slice, as last passed to OneOf or changed since
    calls,      \* history: the calls on schema, in order
    itemCalls,  \* history: the calls on item
    answer      \* the last value checked, with what ValidateAll returned

schemaVars == <<schema, item, slice, calls, itemCalls, answer>>

\* Nothing has been built yet.
NoSchema == Schema("none", <<>>)

SchemasInit ==
    /\ schema = NoSchema
    /\ item = StringSchema(<<"item">>)
    /\ slice = {}
    /\ calls = <<>> /\ itemCalls = <<>>
    /\ answer = NoAnswer

NewSchema ==
    /\ schema = NoSchema
    /\ schema' \in {StringSchema(<<"field">>), IntSchema(<<"field">>),
                    FloatSchema(<<"field">>), ArraySchema(<<"field">>)}
    /\ UNCHANGED <<item, slice, calls, itemCalls, answer>>

\* The program makes the call, which turns schema into s.
Call(call, s) ==
    /\ Len(calls) + Len(itemCalls) < MaxCalls
    /\ schema' = s
    /\ calls' = Append(calls, call)
    /\ answer' = NoAnswer
    /\ UNCHANGED <<item, itemCalls>>

BuildMarks ==
    /\ schema.type \in {"string", "array"}
    /\ Call(<<"Optional">>, Optional(schema)) \/ Call(<<"Required">>, Required(schema))
    /\ UNCHANGED slice

BuildString ==
    /\ schema.type = "string"
    /\ \/ \E n \in Bounds : \/ Call(<<"Min", n>>, StringMin(schema, n))
                            \/ Call(<<"Max", n>>, StringMax(schema, n))
                            \/ Call(<<"Length", n>>, StringLength(schema, n))
       \/ \E S \in WordSets : \/ Call(<<"Regex", S>>, StringRegex(schema, S))
                              \/ Call(<<"Refine", S>>, StringRefine(schema, S))
       \/ Call(<<"Email">>, StringEmail(schema))
       \/ Call(<<"URL">>, StringURL(schema))
       \/ Call(<<"PostgresURL">>, PostgresURL(schema))
       \/ Call(<<"RedisURL">>, RedisURL(schema))
       \/ Call(<<"RabbitMQURL">>, RabbitMQURL(schema))
    /\ UNCHANGED slice

BuildInt ==
    /\ schema.type = "int"
    /\ \/ \E n \in Bounds : \/ Call(<<"Min", n>>, IntMin(schema, n))
                            \/ Call(<<"Max", n>>, IntMax(schema, n))
       \/ \E S \in NumberSets : Call(<<"Refine", S>>, IntRefine(schema, S))
       \/ Call(<<"Positive">>, IntPositive(schema))
       \/ Call(<<"Negative">>, IntNegative(schema))
    /\ UNCHANGED slice

BuildFloat ==
    /\ schema.type = "float"
    /\ \/ \E n \in Bounds : \/ Call(<<"Min", n>>, FloatMin(schema, n))
                            \/ Call(<<"Max", n>>, FloatMax(schema, n))
       \/ \E S \in NumberSets : Call(<<"Refine", S>>, FloatRefine(schema, S))
       \/ Call(<<"Positive">>, FloatPositive(schema))
       \/ Call(<<"Negative">>, FloatNegative(schema))
    /\ UNCHANGED slice

BuildArray ==
    /\ schema.type = "array"
    /\ \/ \E n \in Bounds : \/ Call(<<"Min", n>>, ArrayMin(schema, n))
                            \/ Call(<<"Max", n>>, ArrayMax(schema, n))
                            \/ Call(<<"Length", n>>, ArrayLength(schema, n))
       \/ \E S \in ListSets : Call(<<"Refine", S>>, ArrayRefine(schema, S))
       \/ Call(<<"Unique">>, Unique(schema))
       \/ ~schema.items /\ Call(<<"Items">>, Items(schema))
    /\ UNCHANGED slice

\* OneOf with a slice of the program's: strings are copied, integers are not.
\* One slice at a time, so that slice says what the rules refer to.
BuildOneOf ==
    /\ ~\E i \in DOMAIN calls : calls[i][1] = "OneOf"
    /\ \/ schema.type = "string" /\ slice' \in WordSets
          /\ Call(<<"OneOf", slice'>>, StringOneOf(schema, slice'))
       \/ schema.type = "int" /\ slice' \in NumberSets
          /\ Call(<<"OneOf">>, IntOneOf(schema, slice'))

\* Calls on the item schema, before Items or after it.
BuildItem ==
    /\ schema.type = "array"
    /\ Len(calls) + Len(itemCalls) < MaxCalls
    /\ \/ item' = Optional(item) /\ itemCalls' = Append(itemCalls, <<"Optional">>)
       \/ \E n \in Bounds : /\ item' = StringMin(item, n)
                            /\ itemCalls' = Append(itemCalls, <<"Min", n>>)
    /\ answer' = NoAnswer
    /\ UNCHANGED <<schema, slice, calls>>

\* The program writes into the slice it has passed to OneOf.
ChangeSlice ==
    /\ \E i \in DOMAIN calls : calls[i][1] = "OneOf"
    /\ slice' \in (IF schema.type = "string" THEN WordSets ELSE NumberSets) \ {slice}
    /\ schema' = [schema EXCEPT !.rules =
           [i \in DOMAIN schema.rules |->
               IF schema.rules[i].aliased THEN [schema.rules[i] EXCEPT !.accepts = slice']
                                          ELSE schema.rules[i]]]
    /\ answer' = NoAnswer
    /\ UNCHANGED <<item, calls, itemCalls>>

Values(type) ==
    CASE type = "string" -> Probe
      [] type = "int"    -> Number
      [] type = "float"  -> Float
      [] type = "array"  -> List

ValidateAll(s, i, v) ==
    CASE s.type = "string" -> StringValidateAll(s, v)
      [] s.type = "int"    -> IntValidateAll(s, v)
      [] s.type = "float"  -> FloatValidateAll(s, v)
      [] s.type = "array"  -> ArrayValidateAll(s, i, v)

\* ValidateAll and Validate on one value.  Neither changes the schema, so one
\* check between two calls is as good as several.
Check ==
    /\ schema # NoSchema /\ answer = NoAnswer
    /\ \E v \in Values(schema.type) :
         LET errs == ValidateAll(schema, item, v)
         IN  answer' = [value |-> v, errs |-> errs, first |-> FirstOf(errs)]
    /\ UNCHANGED <<schema, item, slice, calls, itemCalls>>

SchemasNext ==
    \/ NewSchema
    \/ Check
    \/ /\ schema # NoSchema
       /\ \/ BuildMarks \/ BuildString \/ BuildInt \/ BuildFloat
          \/ BuildArray \/ BuildOneOf \/ BuildItem \/ ChangeSlice
-----------------------------------------------------------------------------
Typed(s) ==
    /\ s.type \in {"string", "int", "float", "array"}
    /\ s.optional \in BOOLEAN /\ s.items \in BOOLEAN
    /\ \A i \in DOMAIN s.rules :
         s.rules[i].accepts \subseteq (IF s.type = "string" THEN Word ELSE Values(s.type))

SchemasTypeOK ==
    /\ schema = NoSchema \/ Typed(schema)
    /\ item.type = "string" /\ ~item.items
    /\ Len(calls) + Len(itemCalls) <= MaxCalls

(* A second definition of validity, from the calls alone: what the docs of the *)
(* methods ask for, with the exceptions of the code, each named, set apart.    *)

IsMark(call) == call[1] \in {"Optional", "Required"}

\* The last of Optional and Required holds; without one, a value is required.
MayBeEmpty(cs) ==
    LET marks == {i \in DOMAIN cs : IsMark(cs[i])}
    IN  \E i \in marks : cs[i] = <<"Optional">> /\ \A j \in marks : j <= i

\* "User: must be present with a username", "Password: must be present" (docs of
\* PostgresURL and RabbitMQURL).
HasLogin(u) == u.user = "name" /\ u.password

\* Exception: both methods test that there is user information with a password,
\* which "amqp://:p@h" has as well; no username is asked for.
Nameless(u) == u.user = "empty" /\ u.password

URLMeets(u, call) ==
    CASE call = "URL"         -> u.scheme # "" /\ u.host
      [] call = "RedisURL"    -> u.scheme \in {"redis", "rediss"} /\ u.host
      [] call = "RabbitMQURL" -> /\ u.scheme \in {"amqp", "amqps"}
                                 /\ u.host /\ (HasLogin(u) \/ Nameless(u))
      [] call = "PostgresURL" -> /\ u.scheme \in {"postgres", "postgresql"}
                                 /\ u.host /\ (HasLogin(u) \/ Nameless(u)) /\ u.database

\* A string of size n, a number or a slice of n items does what call asks.
SizeMeets(call, n) ==
    CASE call[1] = "Min" -> n >= call[2]
      [] call[1] = "Max" -> n <= call[2]
      [] call[1] = "Length" -> n = call[2]

StringMeets(call, w) ==
    CASE call[1] \in {"Min", "Max", "Length"} -> SizeMeets(call, Runes[w])
      [] call[1] \in {"OneOf", "Regex", "Refine"} -> w \in call[2]
      [] call[1] = "Email" -> w \in Mailbox
      [] OTHER -> URLOf[w] # Unparsed /\ URLMeets(URLOf[w], call[1])

\* OneOf stands for what the slice holds now.  Of NaN the docs can only mean no:
\* "Positive enforces that the value is greater than zero".
NumberAsked(call, x, held) ==
    CASE call[1] = "Refine" -> x \in call[2]
      [] call[1] = "OneOf" -> x \in held
      [] call[1] = "Positive" -> x # NaN /\ x >= 1
      [] call[1] = "Negative" -> x # NaN /\ x <= -1
      [] OTHER -> x # NaN /\ SizeMeets(call, x)

\* Exception: the rules of floats test for what they refuse, and NaN is neither
\* less nor greater than anything, so it passes Min, Max, Positive and Negative.
NaNPasses(call, x) == x = NaN /\ call[1] \notin {"Refine", "OneOf"}

NumberMeets(call, x, held) == NumberAsked(call, x, held) \/ NaNPasses(call, x)

ListMeets(call, l) ==
    CASE call[1] = "Unique" -> \A i, j \in DOMAIN l : l[i] = l[j] => i = j
      [] call[1] = "Refine" -> l \in call[2]
      [] call[1] = "Items"  -> TRUE
      [] OTHER -> SizeMeets(call, Len(l))

MeetsAs(type, call, v, held) ==
    CASE type = "string" -> StringMeets(call, v)
      [] type = "array"  -> ListMeets(call, v)
      [] OTHER -> NumberMeets(call, v, held)

Meets(call, v) == MeetsAs(schema.type, call, v, slice)

IsEmpty(v) ==
    \/ schema.type = "string" /\ v \in Blank
    \/ schema.type = "array" /\ v = <<>>

\* The calls of cs that v does not meet, in the order they were made.
Unmet(cs, v, Good(_, _)) ==
    Selection(cs, {i \in DOMAIN cs : ~IsMark(cs[i]) /\ ~Good(cs[i], v)})

\* ValidateAll reports an empty value once, another one once for each call it does
\* not meet, in the order of the calls and of nothing else; an optional empty value
\* skips them all.  Validate returns the first of these.  What a value has to meet
\* is what the docs say, but for Nameless and NaNPasses; and an empty value is "is
\* required" whatever was called (doc of Required), where the example in the doc of
\* array's Min promises the message of Min(1).
\* The order, the repeated calls and what was called after Items or after the
\* last check are what the unit tests of shared/validate leave out.
AnswerFollowsCalls ==
    answer # NoAnswer =>
        LET v == answer.value
            own == ErrorsByField(answer.errs, <<"field">>)
            unmet == Unmet(calls, v, Meets)
        IN  /\ IF IsEmpty(v)
                 THEN answer.errs = IF MayBeEmpty(calls) THEN <<>> ELSE
                        <<NewValidationError(<<"field">>, <<"Required">>, "required")>>
                 ELSE /\ Len(own) = Len(unmet)
                      /\ \A i \in DOMAIN own :
                           \/ own[i].message = unmet[i]
                           \/ unmet[i] = <<"Unique">> /\ own[i].message[1] = "Unique"
            /\ answer.first = NoError <=> answer.errs = <<>>
            /\ answer.first # NoError => answer.first = answer.errs[1]

\* An item error is found under the index of its item, once for each call on
\* the item schema that the item does not meet, whether that call was made
\* before Items or after it; and a duplicate under the index of the first item
\* that repeats an earlier one (doc of Items and of Unique).
ItemErrorsPlaced ==
    answer # NoAnswer /\ schema.type = "array" =>
        LET l == answer.value
            unmet(i) == IF l[i] \in Blank THEN IF MayBeEmpty(itemCalls) THEN 0 ELSE 1
                        ELSE Len(Unmet(itemCalls, l[i], StringMeets))
        IN  /\ \A i \in DOMAIN l :
                 Len(ErrorsByField(answer.errs, <<"field", i - 1>>))
                     = IF schema.items THEN unmet(i) ELSE 0
            /\ \A e \in DOMAIN answer.errs :
                 LET err == answer.errs[e]
                 IN  /\ err.field = <<"field">> \/ \E i \in DOMAIN l : err.field = <<"field", i - 1>>
                     /\ err.message[1] = "Unique" =>
                          LET j == err.message[2] + 1
                          IN  /\ \E i \in 1..(j - 1) : l[i] = l[j]
                              /\ \A i, k \in 1..(j - 1) : l[i] = l[k] => i = k

\* A schema for strings depends on what it was given when it was built: no
\* later step of the program changes a rule of it (the copy in OneOf).
RulesAreKept ==
    [][schema # NoSchema /\ schema.type = "string" =>
         \A i \in DOMAIN schema.rules : schema'.rules[i] = schema.rules[i]]_schemaVars

\* The history cs has grown into more by a call that demands something, as all but
\* Optional may.
Demands(cs, more) == more # cs /\ more[Len(more)] # <<"Optional">>

Accepted(s, i) == {v \in Values(s.type) : ValidateAll(s, i, v) = <<>>}

\* One more call on the schema or on its item schema never lets a value through
\* that was refused before, but for Optional: no call takes an earlier one back.
CallsOnlyNarrow ==
    [][schema # NoSchema /\ (Demands(calls, calls') \/ Demands(itemCalls, itemCalls'))
         => Accepted(schema', item') \subseteq Accepted(schema, item)]_schemaVars
-----------------------------------------------------------------------------
(* Why RulesAreKept and the types hold: how schemas and histories are made,    *)
(* an invariant that is inductive, proved in Programs_proofs.                  *)

\* Only an integer's OneOf shares the caller's slice.
WellBuilt(s) ==
    /\ DOMAIN s = {"type", "field", "rules", "optional", "items"}
    /\ IsList(s.rules)
    /\ \A i \in DOMAIN s.rules : DOMAIN s.rules[i] = {"message", "accepts", "aliased"}
    /\ \A i \in DOMAIN s.rules : s.rules[i].aliased => s.type = "int"

SchemasInv ==
    /\ SchemasTypeOK
    /\ schema # NoSchema => WellBuilt(schema)
    /\ WellBuilt(item)
    /\ IsList(calls) /\ IsList(itemCalls)
-----------------------------------------------------------------------------
(* Why AnswerFollowsCalls, ItemErrorsPlaced and CallsOnlyNarrow hold: what the *)
(* calls make of a schema, proved there as well.                               *)

Carrier(type) == IF type = "string" THEN Word ELSE Values(type)

\* The calls that added a rule.
Asked(cs) == {i \in DOMAIN cs : ~IsMark(cs[i]) /\ cs[i] # <<"Items">>}

\* The rules of s are those of the calls cs, in their order.
RulesListed(s, cs) ==
    LET made == Selection(cs, Asked(cs))
    IN  /\ DOMAIN made = DOMAIN s.rules
        /\ \A k \in DOMAIN made : s.rules[k].message = made[k]

\* A rule accepts what its call asks for, where a shared slice holds held.
RulesAccept(s, held) ==
    \A k \in DOMAIN s.rules : \A v \in Carrier(s.type) :
        v \in s.rules[k].accepts <=> MeetsAs(s.type, s.rules[k].message, v, held)

\* What a schema for numbers shares is the slice of OneOf.
SharesOneOf(s) ==
    s.type \in {"int", "float"} => \A k \in DOMAIN s.rules :
        s.rules[k].aliased <=> s.rules[k].message[1] = "OneOf"

SchemaFollowsCalls ==
    /\ RulesListed(schema, calls) /\ RulesAccept(schema, slice) /\ SharesOneOf(schema)
    /\ schema.field = <<"field">>
    /\ schema.optional <=> MayBeEmpty(calls)
    /\ schema.items <=> \E i \in DOMAIN calls : calls[i] = <<"Items">>
    /\ schema.items => schema.type = "array"

ItemFollowsCalls ==
    /\ RulesListed(item, itemCalls) /\ RulesAccept(item, {})
    /\ item.optional <=> MayBeEmpty(itemCalls)

CallsDecide ==
    /\ schema = NoSchema => calls = <<>> /\ answer = NoAnswer
    /\ schema # NoSchema => SchemaFollowsCalls
    /\ ItemFollowsCalls
    /\ \A i \in DOMAIN calls : calls[i][1] = "Unique" => calls[i] = <<"Unique">>
    /\ \A i \in DOMAIN itemCalls : itemCalls[i][1] \in {"Optional", "Min"}

\* What was answered is what would be answered now.
AnswerCurrent ==
    answer # NoAnswer => \E v \in Values(schema.type) :
        LET errs == ValidateAll(schema, item, v)
        IN  answer = [value |-> v, errs |-> errs, first |-> FirstOf(errs)]
=============================================================================
