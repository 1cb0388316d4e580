--------------------------- MODULE StatementParser ---------------------------
(***************************************************************************)
(* The statements of a program.  Most rules are a list of what they read   *)
(* in order: a token, or one of the rules Expression, Name, Place and      *)
(* Body.  A body is read one block further in.                             *)
(***************************************************************************)
EXTENDS ExpressionParser

At(c, p) == Tok(c, p).at

\* Any of the rules by its name, or a token by its type.
RECURSIVE Read(_, _, _)

(***************************************************************************)
(* Places and types.                                                       *)
(***************************************************************************)
BuiltinTypes == {<<w>> : w \in {"number", "str", "boolean", "list", "map", "match", "pattern", "object", "empty"}}

PlaceRoot(c, p) ==
    CASE T(c, p) = "self" -> IF c.method THEN Leaf(c, p, "self") ELSE Fail("UnexpectedToken")
      [] T(c, p) = "."    -> WithMember(c, p)
      [] NameToken(Tok(c, p)) -> Got(<<Node("Name", Tok(c, p).v, <<>>, InWith(c), At(c, p))>>, p + 1)
      [] OTHER -> Fail("UnexpectedToken")

IndexStep(c, p) ==
    Then(Read(c, p + 1, "Expression"),
         LAMBDA index : IF T(c, index.p) = "~" THEN Fail("InvalidAssignmentTarget")
                        ELSE Made("Index", <<>>, Prepend(index.kids, Consume(c, index.p, "]")), {}, At(c, p)))

RECURSIVE PlaceSteps(_, _)
PlaceSteps(c, so) ==
    IF T(c, so.p) = "(" THEN Fail("InvalidAssignmentTarget")
    ELSE IF T(c, so.p) \notin {"[", "."} THEN so
    ELSE Then(IF T(c, so.p) = "[" THEN IndexStep(c, so.p) ELSE MemberName(c, so.p + 1),
              LAMBDA step : PlaceSteps(c, Got(so.kids \o step.kids, step.p)))

Place(c, p) ==
    Then(PlaceRoot(c, p),
         LAMBDA root : Then(PlaceSteps(c, root),
                            LAMBDA steps : IF steps.kids[1].k = "self" /\ Len(steps.kids) = 1
                                           THEN Fail("InvalidAssignmentTarget")
                                           ELSE Made("Place", <<>>, steps, {}, At(c, p))))

\* The type of a declaration; a name with `to` behind it is a declaration whose type is missing.
DeclaredType(c, p) ==
    IF \/ T(c, p) \notin {"IDENTIFIER", "empty"}
       \/ /\ T(c, p) = "IDENTIFIER" /\ Tok(c, p).v \notin BuiltinTypes
          /\ Peek(c, p, 1).t = "to" /\ Peek(c, p, 2).t # "to"
    THEN Fail("UnexpectedToken") ELSE Leaf(c, p, "Type")

(***************************************************************************)
(* Rules as lists.                                                         *)
(***************************************************************************)
Inside(c) == [c EXCEPT !.block = @ + 1]

\* `end`, and the dedent that may follow it.
CloseBlock(c, p) ==
    Then(Consume(c, p, "end"), LAMBDA end : IF T(c, end.p) = "DEDENT" THEN Got(<<>>, end.p + 1) ELSE end)

RECURSIVE Items(_, _, _)
Items(c, p, items) ==
    IF items = <<>> THEN Got(<<>>, p)
    ELSE Then(Read(c, p, Head(items)), LAMBDA first : Prepend(first.kids, Items(c, first.p, Tail(items))))

Rule(c, p, kind, items) == Made(kind, <<>>, Items(c, p, items), {}, At(c, p))

\* A block with its header behind it: what the rule read before p, the body and the end.
DoBody == <<"do", ":", "Body">>

(***************************************************************************)
(* Declarations.                                                           *)
(***************************************************************************)
Set(c, p) ==
    LET constant == T(c, p + 1) = "constant"
    IN  IF T(c, p + 1) \in {"func", "async", "pure"} \/ Tok(c, p + 1).v = <<"returnable">> THEN Fail("UnexpectedToken")
        ELSE Made("Set", <<>>, Items(c, IF constant THEN p + 2 ELSE p + 1, <<"Type", "Name", "to", "Expression">>),
                  IF constant THEN {"constant"} ELSE {}, At(c, p))

\* `global` where the value of a change should be is the old form of the statement.
NewValue(c, p) ==
    IF T(c, p) = "global" /\ Peek(c, p, 1).t \in StatementEnd THEN Fail("UnexpectedToken") ELSE Read(c, p, "Expression")

Change(c, p) ==
    Then(Items(c, p, <<"change", "Place", "to">>),
         LAMBDA place : Made("Change", <<>>, Prepend(place.kids, NewValue(c, place.p)), {}, At(c, p)))

RECURSIVE Names(_, _)
Names(c, p) ==
    Then(Name(c, p), LAMBDA name : IF T(c, name.p) = "," THEN Prepend(name.kids, Names(c, name.p + 1)) ELSE name)

Global(c, p) == Made("Global", <<>>, Names(c, p + 1), {}, At(c, p))

(***************************************************************************)
(* Functions and classes.                                                  *)
(***************************************************************************)
\* A parameter: a word before a name is its type; after one that has a default every parameter has one.
Param(c, p, before) ==
    LET typed   == T(c, p) = "IDENTIFIER" /\ NameToken(Peek(c, p, 1)) /\ Peek(c, p, 1).t # "to"
        type    == IF typed THEN Leaf(c, p, "Type").kids ELSE <<>>
        default(name) == T(c, name.p) = "to"
        value(name)   == IF default(name) THEN Read(c, name.p + 1, "Expression") ELSE Got(<<>>, name.p)
        made(name)    ==
            IF \/ \E i \in DOMAIN before : before[i].n = name.kids[1].n
               \/ ~default(name) /\ before # <<>> /\ "default" \in Last(before).flags
            THEN Fail("UnexpectedToken")
            ELSE Made("Param", name.kids[1].n, Prepend(type, value(name)),
                      (IF typed THEN {"typed"} ELSE {}) \cup (IF default(name) THEN {"default"} ELSE {}), name.kids[1].at)
    IN  IF T(c, p) = "empty" THEN Fail("UnexpectedToken")
        ELSE Then(Name(c, IF typed THEN p + 1 ELSE p), made)

RECURSIVE Params(_, _, _)
Params(c, p, before) ==
    Then(Param(c, p, before),
         LAMBDA param : IF T(c, param.p) = "," THEN Params(c, param.p + 1, before \o param.kids)
                        ELSE Prepend(before \o param.kids, Consume(c, param.p, ")")))

\* A mutant: the body of a function is still inside the with block around it.
KeepWith(c, owner) == [c EXCEPT !.method = "method" \in owner, !.parent = {"method", "parent"} \subseteq owner]

\* What a function's parameters and body can use: nothing of what surrounds it.
FunctionContext(c, owner) ==
    [c EXCEPT !.method = "method" \in owner, !.parent = {"method", "parent"} \subseteq owner, !.with = 0]

\* The parameters and the body; p is behind the parenthesis.
FunctionRest(c, p) ==
    Then(IF T(c, p) = ")" THEN Got(<<>>, p + 1) ELSE Params(c, p, <<>>),
         LAMBDA params : Prepend(params.kids, Items(c, params.p, DoBody \o <<"Close">>)))

\* owner: "method" in a class, "parent" in a class that has one, "private".
Function(c, p, owner) ==
    LET func   == After(c, p, {"async", "pure"})
        words  == {T(c, k) : k \in p .. func - 1}
    IN  IF Cardinality(words) < func - p THEN Fail("UnexpectedToken")
        ELSE IF T(c, func) = "func" /\ "method" \in owner /\ Tok(c, func + 1).v = <<"init">> /\ "async" \in words
             THEN Fail("UnexpectedToken")
        ELSE Then(Items(c, func, <<"func", "Name", "(">>),
                  LAMBDA name : Made("Function", name.kids[1].n, FunctionRest(FunctionContext(c, owner), name.p),
                                     words \cup (owner \ {"parent"}), At(c, p)))

\* A field's default value is computed for every new object, outside every method.
Field(c, p, owner) ==
    LET constant == T(c, p + 1) = "constant"
        outside  == [c EXCEPT !.method = FALSE, !.parent = FALSE, !.with = 0]
    IN  Then(Items(c, IF constant THEN p + 2 ELSE p + 1, <<"Type", "Name", "to">>),
             LAMBDA header : Made("Field", <<>>, Prepend(header.kids, Read(outside, header.p, "Expression")),
                                  (IF constant THEN {"constant"} ELSE {}) \cup (owner \cap {"private"}), At(c, p)))

OneMember(c, p, owner) ==
    IF TooDeep(c) THEN Fail("NestingTooDeep")
    ELSE IF T(c, p) = "set" THEN Field(Deeper(c), p, owner)
    ELSE IF T(c, p) \in {"func", "async", "pure"} THEN Function(Deeper(c), p, owner)
    ELSE Fail("UnexpectedToken")

RECURSIVE Members(_, _, _)
Members(c, p, owner) ==
    LET start  == SkipNewlines(c, p)
        hidden == T(c, start) = "private"
    IN  IF T(c, start) \in {"EOF", "end"} THEN CloseBlock(c, start)
        ELSE Then(OneMember(c, IF hidden THEN start + 1 ELSE start, IF hidden THEN owner \cup {"private"} ELSE owner),
                  LAMBDA member : IF T(c, member.p) \notin StatementEnd THEN Fail("UnexpectedToken")
                                  ELSE Prepend(member.kids, Members(c, member.p, owner)))

AtTopLevel(c)    == c.block = 0

ClassRest(c, p, extends) ==
    Then(Items(c, p, (IF extends THEN <<"extends", "Name">> ELSE <<>>) \o <<"do", ":">>),
         LAMBDA header : Prepend(header.kids, Members(Inside(c), header.p,
                                                      {"method"} \cup (IF extends THEN {"parent"} ELSE {}))))

Class(c, p) ==
    LET made(name, extends) == Made("Class", <<>>, Prepend(name.kids, ClassRest(c, name.p, extends)),
                                    IF extends THEN {"extends"} ELSE {}, At(c, p))
    IN  IF ~AtTopLevel(c) THEN Fail("ClassNotTopLevel")
        ELSE Then(Items(c, p, <<"class", "Name">>), LAMBDA name : made(name, T(c, name.p) = "extends"))

(***************************************************************************)
(* Control flow.                                                           *)
(***************************************************************************)
\* The branches of an if from its condition on; the one after a bare else is the last.
RECURSIVE Branches(_, _)
Branches(c, p) ==
    LET rest(q) ==
          IF T(c, q) # "else" THEN CloseBlock(c, q)
          ELSE IF T(c, q + 1) = "if" THEN Branches(c, q + 2)
          ELSE Then(Rule(c, q + 1, "Branch", DoBody), LAMBDA final : Prepend(final.kids, CloseBlock(c, final.p)))
    IN  Then(Rule(c, p, "Branch", <<"Expression">> \o DoBody), LAMBDA branch : Prepend(branch.kids, rest(branch.p)))

With(c, p) ==
    Then(Items(c, p, <<"with", "Expression", "do", ":">>),
         LAMBDA header : Made("With", <<>>, Prepend(header.kids, Items([c EXCEPT !.with = @ + 1], header.p, <<"Body", "Close">>)),
                              {}, At(c, p)))

LoopHeader == [repeat |-> <<"Name", "to", "Expression", "~", "Expression">>, while |-> <<"Expression">>,
               each   |-> <<"Name", "in", "Expression">>]

Loop(c, p) ==
    IF T(c, p + 1) \notin DOMAIN LoopHeader THEN Fail("UnexpectedToken")
    ELSE Made("Loop", <<T(c, p + 1)>>, Items(c, p + 2, LoopHeader[T(c, p + 1)] \o DoBody \o <<"Close">>), {}, At(c, p))

\* A statement that may fail, with its handler.
OrElse(c, one) ==
    LET as   == Tok(c, one.p + 1).v = <<"as">>
        rest == Items(c, one.p + 1, IF as THEN <<"IDENTIFIER", "Name">> \o DoBody \o <<"Close">>
                                          ELSE DoBody \o <<"Close">>)
    IN  Made("OrElse", <<>>, Prepend(one.kids, rest), IF as THEN {"as"} ELSE {}, At(c, one.p))

(***************************************************************************)
(* Imports.                                                                *)
(***************************************************************************)
AtLibrary(c, p) == Tok(c, p).t = "IDENTIFIER" /\ Tok(c, p).v = <<"DLC">> /\ Peek(c, p, 1).t = ":"

RECURSIVE Libraries(_, _)
Libraries(c, p) ==
    LET more(name) ==
          IF T(c, name.p) = "," /\ AtLibrary(c, name.p + 1) THEN Prepend(name.kids, Libraries(c, name.p + 1))
          ELSE IF T(c, name.p) = "," \/ AtLibrary(c, name.p) THEN Fail("Syntax")
          ELSE name
    IN  IF WordLike(Tok(c, p + 2)) THEN more(Leaf(c, p + 2, "Library")) ELSE Fail("Syntax")

\* The path runs over words, numbers and the characters . / - up to whatever else follows.
PathEnd(c, p) ==
    CHOOSE q \in p .. Len(c.toks) :
        LET inPath(k) == T(c, k) \in {".", "/", "-", "NUMBER", "IDENTIFIER"} \cup (Keywords \ {"end"})
        IN  (\A k \in p .. q - 1 : inPath(k)) /\ ~inPath(q)

UsePath(c, p, from) ==
    LET path(end) == [k \in 1 .. end - from |-> Leaf(c, from + k - 1, "Path").kids[1]]
        made(end) == IF end = from THEN Fail("Syntax") ELSE Got(<<Node("Use", Tok(c, p + 1).v, path(end), {}, At(c, p))>>, end)
    IN  made(PathEnd(c, from))

Use(c, p) ==
    IF AtLibrary(c, p + 1) THEN Made("UseLibraries", <<>>, Libraries(c, p + 1), {}, At(c, p))
    ELSE IF ~WordLike(Tok(c, p + 1)) THEN Fail("Syntax")
    ELSE Then(Consume(c, p + 2, "from"), LAMBDA from : UsePath(c, p, from.p))

(***************************************************************************)
(* Statements and bodies.                                                  *)
(***************************************************************************)
Return(c, p) ==
    IF T(c, p + 1) \in StatementEnd THEN Got(<<Node("Return", <<>>, <<>>, {}, At(c, p))>>, p + 1)
    ELSE Made("Return", <<>>, Read(c, p + 1, "Expression"), {}, At(c, p))

FailWith(c, p) ==
    IF T(c, p + 1) \in StatementEnd THEN Fail("UnexpectedToken") ELSE Made("Fail", <<>>, Read(c, p + 1, "Expression"), {}, At(c, p))

One(c, p) ==
    LET type == T(c, p)
    IN  CASE type = "set"    -> Set(c, p)
          [] type = "change" -> Change(c, p)
          [] type = "global" /\ NameToken(Peek(c, p, 1)) -> Global(c, p)
          [] type \in {"func", "async", "pure"} -> Function(c, p, {})
          [] type = "class"  -> Class(c, p)
          [] type = "private" -> Fail("UnexpectedToken")
          [] type = "if"     -> Made("If", <<>>, Branches(c, p + 1), {}, At(c, p))
          [] type = "with"   -> With(c, p)
          [] type = "loop"   -> Loop(c, p)
          [] type \in {"stop", "skip"} -> Leaf(c, p, "Jump")
          [] type = "return" -> Return(c, p)
          [] type = "fail"   -> FailWith(c, p)
          [] type = "await"  -> Made("Statement", <<>>, Await(c, p), {}, At(c, p))
          [] type = "use"    -> Use(c, p)
          [] type = "add"    -> Rule(c, p, "Add", <<"add", "Expression", "to", "Place">>)
          [] type = "remove" -> Rule(c, p, "Remove", <<"remove", "Expression", "from", "Place">>)
          [] OTHER           -> Made("Statement", <<>>, Read(c, p, "Expression"), {}, At(c, p))

\* One statement with its handler, up to the end of its line or of the construct around it.
Statement(c, p) ==
    LET start     == SkipNewlines(c, p)
        handled(one) == IF T(c, one.p) = "or_else" THEN OrElse(Deeper(c), one) ELSE one
        ended(all)   == IF T(c, all.p) \notin StatementEnd THEN Fail("UnexpectedToken") ELSE all
    IN  IF T(c, start) = "EOF" THEN Got(<<>>, start)
        ELSE IF TooDeep(c) THEN Fail("NestingTooDeep")
        ELSE Then(Then(One(Deeper(c), start), handled), ended)

\* The lines of a block, up to its end or else.
RECURSIVE Lines(_, _)
Lines(c, p) ==
    LET start == SkipNewlines(c, p)
    IN  IF T(c, start) \in {"EOF", "end", "else"} THEN Got(<<>>, start)
        ELSE Then(Read(c, start, "Statement"), LAMBDA one : Prepend(one.kids, Lines(c, one.p)))

Body(c, p) == Made("Body", <<>>, IF T(c, p) = "NEWLINE" THEN Lines(c, p) ELSE Read(c, p, "Statement"), {}, At(c, p))

Read(c, p, item) ==
    CASE item = "Expression" -> Expression(c, p)
      [] item = "Statement"  -> Statement(c, p)
      [] item = "Name"       -> Name(c, p)
      [] item = "Place"      -> Place(c, p)
      [] item = "Type"       -> DeclaredType(c, p)
      [] item = "Body"       -> Body(Inside(c), p)
      [] item = "Close"      -> CloseBlock(c, p)
      [] OTHER               -> Consume(c, p, item)
=============================================================================
