------------------------------ MODULE Validate ------------------------------
(***************************************************************************)
(* shared/validate as operators.  A schema is a record that its builder    *)
(* calls extend; a rule is the set of values it accepts, with the call it  *)
(* comes from in the place of its wording.  Strings are opaque: what the   *)
(* standard library makes of one is looked up in constant functions.       *)
(***************************************************************************)
EXTENDS Integers, SequencesExt

CONSTANTS
    Word,       \* the strings that occur; "" is one of them
    Blank,      \* those of which strings.TrimSpace leaves nothing
    Runes,      \* utf8.RuneCountInString, a function on Word
    Mailbox,    \* those net/mail.ParseAddress accepts
    URLOf,      \* net/url.Parse: a record of parts, or Unparsed
    IntOf,      \* strconv.ParseInt: an integer, or Unparsed
    Number,     \* the integers that occur
    NaN,        \* the float that compares with nothing, not even itself
    List,       \* the slices of strings that occur
    Unparsed

ASSUME ValidateAssumption ==
    /\ Blank \subseteq Word /\ "" \in Blank /\ Mailbox \subseteq Word
    /\ Runes \in [Word -> Nat] /\ Runes[""] = 0
    /\ Number \subseteq Int /\ \A w \in Word : IntOf[w] \in Number \cup {Unparsed}
    /\ NaN \notin Int /\ Unparsed \notin Int
    /\ \A w \in Word : URLOf[w] # Unparsed => URLOf[w].user \in {"none", "empty", "name"}
    /\ \A w \in Word : URLOf[w] # Unparsed /\ URLOf[w].password => URLOf[w].user # "none"
    /\ List \subseteq Seq(Word)

Float == Number \cup {NaN}

\* Go's < on floats.
Less(x, y) == x # NaN /\ y # NaN /\ x < y
-----------------------------------------------------------------------------
\* The message is the call whose rule is broken; a field is a name, or a name
\* and an index.
NewValidationError(field, message, code) ==
    [field |-> field, message |-> message, code |-> code]

\* nil.
NoError == NewValidationError(<<>>, <<>>, "")

HasErrors(errs) == errs # <<>>

\* SelectSeq by positions instead of a test, so that it can be reasoned about:
\* what s has at the positions S, in its order.
InOrder(S) ==
    CHOOSE p \in [1..Cardinality(S) -> S] : \A i, j \in DOMAIN p : i < j => p[i] < p[j]

Selection(s, S) == LET p == InOrder(S) IN [k \in DOMAIN p |-> s[p[k]]]

ErrorsByField(errs, field) == Selection(errs, {i \in DOMAIN errs : errs[i].field = field})

Schema(type, field) ==
    [type |-> type, field |-> field, rules |-> <<>>, optional |-> FALSE, items |-> FALSE]

StringSchema(field) == Schema("string", field)

IntSchema(field) == Schema("int", field)

FloatSchema(field) == Schema("float", field)

ArraySchema(field) == Schema("array", field)

\* Mutated: a second call of one method takes the place of the first.
addRuleOver(s, message, accepted) ==
    [s EXCEPT !.rules =
        Append(Selection(@, {i \in DOMAIN @ : @[i].message[1] # message[1]}),
               [message |-> message, accepts |-> accepted, aliased |-> FALSE])]

addRule(s, message, accepted) ==
    [s EXCEPT !.rules =
        Append(@, [message |-> message, accepts |-> accepted, aliased |-> FALSE])]

\* The methods of strings; Optional and Required are those of arrays as well.

Optional(s) == [s EXCEPT !.optional = TRUE]

Required(s) == [s EXCEPT !.optional = FALSE]

StringMin(s, n) == addRule(s, <<"Min", n>>, {w \in Word : Runes[w] >= n})

StringMax(s, n) == addRule(s, <<"Max", n>>, {w \in Word : Runes[w] <= n})

StringLength(s, n) == addRule(s, <<"Length", n>>, {w \in Word : Runes[w] = n})

\* Mutated: the rule keeps the caller's slice.
StringOneOfUncopied(s, words) ==
    [s EXCEPT !.rules =
        Append(@, [message |-> <<"OneOf", words>>, accepts |-> words, aliased |-> TRUE])]

\* The words are copied when the rule is made.
StringOneOf(s, words) == addRule(s, <<"OneOf", words>>, words)

StringEmail(s) == addRule(s, <<"Email">>, Mailbox)

\* The strings that parse as a URL.
URLs == {w \in Word : URLOf[w] # Unparsed}

StringURL(s) == addRule(s, <<"URL">>, {w \in URLs : URLOf[w].scheme # "" /\ URLOf[w].host})

\* A pattern is the set of strings it matches.
StringRegex(s, pattern) == addRule(s, <<"Regex", pattern>>, pattern)

PostgresURL(s) ==
    addRule(s, <<"PostgresURL">>, {w \in URLs :
        /\ URLOf[w].scheme \in {"postgres", "postgresql"}
        /\ URLOf[w].host
        /\ URLOf[w].user # "none" /\ URLOf[w].password
        /\ URLOf[w].database})

RedisURL(s) ==
    addRule(s, <<"RedisURL">>, {w \in URLs :
        URLOf[w].scheme \in {"redis", "rediss"} /\ URLOf[w].host})

RabbitMQURL(s) ==
    addRule(s, <<"RabbitMQURL">>, {w \in URLs :
        /\ URLOf[w].scheme \in {"amqp", "amqps"}
        /\ URLOf[w].host
        /\ URLOf[w].user # "none" /\ URLOf[w].password})

\* A predicate is the set of strings it is true of.
StringRefine(s, good) == addRule(s, <<"Refine", good>>, good)

\* The methods of integers.

IntMin(s, n) == addRule(s, <<"Min", n>>, {x \in Number : x >= n})

IntMax(s, n) == addRule(s, <<"Max", n>>, {x \in Number : x <= n})

IntPositive(s) == addRule(s, <<"Positive">>, {x \in Number : x > 0})

IntNegative(s) == addRule(s, <<"Negative">>, {x \in Number : x < 0})

\* The rule keeps the caller's slice itself: aliased, it changes with it.
IntOneOf(s, slice) ==
    [s EXCEPT !.rules =
        Append(@, [message |-> <<"OneOf">>, accepts |-> slice, aliased |-> TRUE])]

IntRefine(s, good) == addRule(s, <<"Refine", good>>, good)

\* The methods of floats: each rule says what it refuses, and NaN is not that.

FloatMin(s, n) == addRule(s, <<"Min", n>>, {x \in Float : ~Less(x, n)})

FloatMax(s, n) == addRule(s, <<"Max", n>>, {x \in Float : ~Less(n, x)})

FloatPositive(s) == addRule(s, <<"Positive">>, {x \in Float : x = NaN \/ x > 0})

FloatNegative(s) == addRule(s, <<"Negative">>, {x \in Float : x = NaN \/ x < 0})

FloatRefine(s, good) == addRule(s, <<"Refine", good>>, good)

\* The methods of arrays.

ArrayMin(s, n) == addRule(s, <<"Min", n>>, {l \in List : Len(l) >= n})

ArrayMax(s, n) == addRule(s, <<"Max", n>>, {l \in List : Len(l) <= n})

ArrayLength(s, n) == addRule(s, <<"Length", n>>, {l \in List : Len(l) = n})

\* Items keeps a pointer: the item schema is looked at when a value is checked.
Items(s) == [s EXCEPT !.items = TRUE]

Repeats(l) == {j \in DOMAIN l : \E i \in 1..(j - 1) : l[i] = l[j]}

Unique(s) == addRule(s, <<"Unique">>, {l \in List : Repeats(l) = {}})

ArrayRefine(s, good) == addRule(s, <<"Refine", good>>, good)
-----------------------------------------------------------------------------
\* Unique's message names the first item that was seen before, counted from 0.
Message(rule, value) ==
    IF rule.message = <<"Unique">>
      THEN <<"Unique", (CHOOSE j \in Repeats(value) : \A k \in Repeats(value) : j <= k) - 1>>
      ELSE rule.message

Broken(rules, value) ==
    Selection(rules, {i \in DOMAIN rules : value \notin rules[i].accepts})

\* Mutated: the loop over the rules stops at the first one broken.
FirstRuleOnly(s, value) ==
    LET broken == Broken(s.rules, value)
    IN  IF broken = <<>> THEN <<>>
        ELSE <<NewValidationError(s.field, Message(broken[1], value), "validation_failed")>>

\* Every rule runs, whatever those before it returned.
RuleErrors(s, value) ==
    LET broken == Broken(s.rules, value)
    IN  [i \in DOMAIN broken |->
            NewValidationError(s.field, Message(broken[i], value), "validation_failed")]

executeRules(s, value, isEmpty) ==
    IF ~isEmpty THEN RuleErrors(s, value)
    ELSE IF s.optional THEN <<>>
    ELSE <<NewValidationError(s.field, <<"Required">>, "required")>>

StringValidateAll(s, w) == executeRules(s, w, w \in Blank)

IntValidateAll(s, x) == RuleErrors(s, x)

FloatValidateAll(s, x) == RuleErrors(s, x)

\* Mutated: the errors of the items keep the field of the item schema.
ItemErrorsUnplaced(s, item, l) ==
    FlattenSeq([i \in DOMAIN l |-> StringValidateAll(item, l[i])])

\* The errors of item i, under the array's name and the index.
ItemErrors(s, item, l) ==
    FlattenSeq([i \in DOMAIN l |->
        LET errs == StringValidateAll(item, l[i])
        IN  [e \in DOMAIN errs |-> [errs[e] EXCEPT !.field = <<s.field[1], i - 1>>]]])

ArrayValidateAll(s, item, l) ==
    executeRules(s, l, l = <<>>) \o (IF s.items THEN ItemErrors(s, item, l) ELSE <<>>)

\* Validate collects everything and returns the first.
FirstOf(errs) == IF HasErrors(errs) THEN errs[1] ELSE NoError

\* ParseString has no look at its schema: an integer is returned whatever the
\* rules say, and the error of a string that is none carries no field.
IntParseString(w) ==
    [value |-> IF IntOf[w] = Unparsed THEN 0 ELSE IntOf[w], failed |-> IntOf[w] = Unparsed]

ValidateStruct(results) == FlattenSeq(results)
-----------------------------------------------------------------------------
\* A sequence, whatever its elements are.
IsList(s) == s \in Seq({s[i] : i \in DOMAIN s})
=============================================================================
