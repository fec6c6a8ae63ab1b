------------------------------ MODULE MCAuthor ------------------------------
(* The standard methods on resources at three depths, an Undelete and a    *)
(* custom method; an API with resources at two depths and a singleton; a   *)
(* file; and an enum: each with up to Faults of the mistakes below, the    *)
(* last two with one more.                                                 *)
EXTENDS Author

CONSTANTS Faults, Bases, Mistakes, APIs, APIMistakes, FileMistakes, EnumMistakes

MCSnake == [Book |-> "book", BookEdition |-> "book_edition", Publisher |-> "publisher",
            Volume |-> "volume", Books |-> "books", Publishers |-> "publishers",
            Volumes |-> "volumes", BookByAuthor |-> "book_by_author"] @@ ("" :> "")
MCLower == [MCSnake EXCEPT !.BookEdition = "bookedition", !.BookByAuthor = "bookbyauthor"]
MCIdField == [n \in DOMAIN MCSnake |-> IF n = "BookEdition" THEN "book_edition_id" ELSE "other_id"]
MCParts == [n \in DOMAIN MCSnake |->
              IF n \in {"BookEdition", "BookByAuthor", "Books"} THEN {n, "Book"}
              ELSE IF n \in {"Publishers"} THEN {n, "Publisher"}
              ELSE IF n \in {"Volumes"} THEN {n, "Volume"} ELSE {n}]
MCSingular == [Book |-> "Book", BookEdition |-> "BookEdition", Publisher |-> "Publisher",
               Volume |-> "Volume", Books |-> "Book", Publishers |-> "Publisher",
               Volumes |-> "Volume", BookByAuthor |-> "Book"] @@ ("" :> "Book")
MCCollection == [Book |-> "books", BookEdition |-> "editions", Publisher |-> "publishers",
                 Volume |-> "volumes"]
MCParentType == [n \in DOMAIN MCSnake |->
                   IF n = "BookEdition" THEN "Book"
                   ELSE IF n \in {"Publisher", "Publishers"} THEN "Library" ELSE "Publisher"]
MCWithoutPrepositions == [n \in DOMAIN MCSnake |-> IF n = "BookByAuthor" THEN "Book" ELSE n]

Variables(collections) ==
  [vars |-> Cardinality(collections), collections |-> collections, singleton |-> FALSE]

MCPatterns ==
  [Publisher   |-> {Variables({"publishers"})},
   Book        |-> {Variables({"publishers", "books"})},
   Volume      |-> {Variables({"publishers", "volumes"})},
   BookEdition |-> {Variables({"publishers", "books", "editions"})}]

Rule(verb, body, var, last) ==
  [verb |-> verb, body |-> body, vars |-> {var}, last |-> last, colon |-> ""]

Required(type) == [NewField(type) EXCEPT !.required = TRUE]
Path(noun) == [Required(String) EXCEPT !.types = <<noun>>]
Parent(noun) == [Required(String) EXCEPT !.childTypes = <<noun>>]

Method(verb, noun, out, fields, rule, signature) ==
  [verb |-> verb, noun |-> noun, in |-> <<verb, noun, "Request">>, out |-> out,
   fields |-> fields, resp |-> <<>>, info |-> NoInfo, http |-> <<rule>>,
   signatures |-> <<signature>>, streaming |-> FALSE, messages |-> {},
   patterns |-> MCPatterns, children |-> {"Publisher", "Book"},
   undelete |-> {"Book"}, expiring |-> {"Book"}, imperative |-> FALSE]

Get(noun) ==
  Method("Get", noun, Bare(noun), [path |-> Path(noun)], Rule("GET", "", "path", ""), <<"path">>)

List(noun, plural) ==
  [Method("List", plural, <<"List", plural, "Response">>,
          [parent |-> Parent(noun), max_page_size |-> NewField(Int32),
           page_token |-> NewField(String)],
          Rule("GET", "", "parent", MCCollection[noun]), <<"parent">>)
    EXCEPT !.resp = [results |-> [type |-> Bare(noun), repeated |-> TRUE],
                     next_page_token |-> [type |-> String, repeated |-> FALSE]]]

Create(noun) ==
  Method("Create", noun, Bare(noun),
         [f \in {"parent", "id", MCSnake[noun]} |->
            IF f = "parent" THEN Parent(noun)
            ELSE IF f = "id" THEN NewField(String) ELSE Required(Bare(noun))],
         Rule("POST", MCSnake[noun], "parent", MCCollection[noun]), <<"parent", MCSnake[noun]>>)

(* There is nothing above a publisher.                                     *)
CreatePublisher ==
  [DropField(Create("Publisher"), "parent") EXCEPT
     !.http[1].vars = {}, !.signatures = <<<<"publisher">>>>]

Update(noun) ==
  Method("Update", noun, Bare(noun),
         [f \in {"path", "update_mask", MCSnake[noun]} |->
            IF f = "path" THEN Path(noun)
            ELSE IF f = "update_mask" THEN NewField(FieldMask) ELSE Required(Bare(noun))],
         Rule("PATCH", MCSnake[noun], "path", ""), <<MCSnake[noun], "update_mask">>)

Delete(noun) ==
  Method("Delete", noun, Empty, [path |-> Path(noun)], Rule("DELETE", "", "path", ""), <<"path">>)

(* :undelete and :archive; the one has a name, the other a path.           *)
Undelete(noun) ==
  [Method("Undelete", noun, Bare(noun), [name |-> Path(noun)], Rule("POST", "*", "name", ""),
          <<"name">>) EXCEPT !.http[1].colon = "undelete"]

Archive(noun) ==
  [Method("Archive", noun, Bare(noun), [path |-> Path(noun)], Rule("POST", "*", "path", ""),
          <<"path">>) EXCEPT !.http[1].colon = "archive"]

WithOperation(d) ==
  [d EXCEPT !.out = Operation, !.messages = {Bare("Metadata")},
            !.info = [set |-> TRUE, response |-> d.out, metadata |-> Bare("Metadata")]]

Base(b) ==
  CASE b = "get"              -> Get("Book")
    [] b = "list"             -> List("Book", "Books")
    [] b = "list top"         -> List("Publisher", "Publishers")
    [] b = "create"           -> Create("BookEdition")
    [] b = "create top"       -> CreatePublisher
    [] b = "create operation" -> WithOperation(Create("Book"))
    [] b = "create top operation" -> WithOperation(CreatePublisher)
    [] b = "update"           -> Update("BookEdition")
    [] b = "update operation" -> WithOperation(Update("Book"))
    [] b = "delete"           -> Delete("Publisher")
    [] b = "delete parent"    -> Delete("Book")
    [] b = "undelete"         -> Undelete("Volume")
    [] b = "undelete book"    -> Undelete("Book")
    [] b = "custom"           -> Archive("Book")

Owner(d) ==
  IF d.verb = "Undelete" THEN "name" ELSE IF HasField(d, "path") THEN "path" ELSE "parent"
Resource(d) == {f \in DOMAIN d.fields : IsMessage(d.fields[f].type) /\ f # "update_mask"}

Synonym == [Get |-> "Fetch", List |-> "List", Create |-> "Insert", Update |-> "Patch",
            Delete |-> "Delete", Undelete |-> "Undelete", Archive |-> "Archive"]

(* Each mistake leaves alone a design it does not fit.                     *)
Mistaken(m, d) ==
  LET owned == HasField(d, Owner(d))
      o     == Owner(d)
  IN CASE m = "none"            -> d
       [] m = "HTTP verb"       -> SetHTTP(d, "verb", "PUT")
       [] m = "body"            -> SetHTTP(d, "body", "*")
       [] m = "no body"         -> SetHTTP(d, "body", "")
       [] m = "variable"        -> SetHTTP(d, "vars", {"name"})
       [] m = "collection"      -> SetHTTP(d, "last", "tomes")
       [] m = "no collection"   -> SetHTTP(d, "last", "")
       [] m = "no HTTP"         -> [d EXCEPT !.http = <<>>]
       [] m = "second HTTP"     -> IF d.http = <<>> THEN d
                                   ELSE [d EXCEPT !.http = @ \o <<Rule("POST", "*", "name", "tomes")>>]
       [] m = "no signature"    -> [d EXCEPT !.signatures = <<>>]
       [] m = "signature"       -> [d EXCEPT !.signatures = <<<<"name">>>>]
       [] m = "request"         -> [d EXCEPT !.in[2] = IF d.verb = "List" THEN "Volumes" ELSE "Volume"]
       [] m = "response"        -> IF d.out = Operation THEN [d EXCEPT !.info.response = Bare("Volume")]
                                   ELSE [d EXCEPT !.out = Bare("Volume")]
       [] m = "verb"            -> [d EXCEPT !.verb = Synonym[d.verb], !.in[1] = Synonym[d.verb]]
       [] m = "preposition"     -> IF d.noun = "Book" /\ d.verb \notin {"Create", "Update"}
                                   THEN [d EXCEPT !.noun = "BookByAuthor"] ELSE d
       [] m = "no noun"         -> IF d.verb = "Archive" THEN [d EXCEPT !.noun = ""] ELSE d
       [] m = "suffix"          -> SetHTTP(d, "colon", IF d.verb = "Undelete" THEN "restore" ELSE "")
       [] m = "streaming"       -> [d EXCEPT !.streaming = TRUE]
       [] m = "no metadata"     -> [d EXCEPT !.info.metadata = NoName]
       [] m = "unreachable"     -> [d EXCEPT !.messages = {}]
       [] m = "unannotated"     -> [d EXCEPT !.out = Operation, !.info = NoInfo]
       [] m = "unowned"         -> DropField(d, o)
       [] m = "owner's name"    -> IF owned THEN RenameField(d, o, "name") ELSE d
       [] m = "owner's type"    -> IF owned THEN [d EXCEPT !.fields[o].type = Int32] ELSE d
       [] m = "owner optional"  -> IF owned THEN [d EXCEPT !.fields[o].required = FALSE] ELSE d
       [] m = "no reference"    -> IF owned THEN [d EXCEPT !.fields[o].types = <<>>,
                                                           !.fields[o].childTypes = <<>>] ELSE d
       [] m = "reference"       -> IF owned THEN [d EXCEPT !.fields[o].types = <<>>,
                                                           !.fields[o].childTypes = <<"Volume">>] ELSE d
       [] m = "type reference"  -> IF owned THEN [d EXCEPT !.fields[o].types = <<"Book">>,
                                                           !.fields[o].childTypes = <<>>] ELSE d
       [] m = "unknown"         -> SetField(d, "name", Required(String))
       [] m = "known"           -> SetField(d, "request_id", Required(String))
       [] m = "no resource"     -> [d EXCEPT !.fields =
                                      [f \in DOMAIN d.fields \ Resource(d) |-> d.fields[f]]]
       [] m = "resource's name" -> IF Resource(d) = {} THEN d
                                   ELSE RenameField(d, CHOOSE f \in Resource(d) : TRUE, "resource")
       [] m = "optional"        -> [d EXCEPT !.fields =
                                      [f \in DOMAIN d.fields |-> [d.fields[f] EXCEPT !.required = FALSE]]]
       [] m = "etag"            -> IF d.verb = "Delete" THEN SetField(d, "etag", NewField(String)) ELSE d
       [] m = "id field"        -> IF d.verb = "Create" /\ d.noun = "BookEdition"
                                   THEN SetField(d, "book_edition_id", NewField(String)) ELSE d
       [] m = "results"         -> IF d.verb = "List"
                                   THEN [d EXCEPT !.resp =
                                           [f \in {MCSnake[d.noun]} |->
                                              [type |-> Bare(MCSingular[d.noun]), repeated |-> TRUE]]]
                                   ELSE d
       [] m = "page token"      -> DropField(DropField(d, "page_token"), "max_page_size")

With(Mistake(_, _), base, mistakes, faults) ==
  {FoldSet(Mistake, base, made) : made \in {Range(m) : m \in [1..faults -> mistakes]}}

-----------------------------------------------------------------------------

(* A text is <<it, in kebab case, in snake case, in lower camel case>>.    *)
Texts ==
  LET edition(t) == <<t, "book-edition", "book_edition", "bookEdition">>
      editions(t) == <<t, "book-editions", "book_editions", "bookEditions">>
      same(t) == <<t, t, t, t>>
  IN  {<<"-", "-", "_", "">>, <<"Publisher", "publisher", "publisher", "publisher">>,
       <<"Settings", "settings", "settings", "settings">>,
       <<"Publishers", "publishers", "publishers", "publishers">>,
       <<"bookPath", "book-path", "book_path", "bookPath">>,
       <<"book_path", "book-path", "book_path", "bookPath">>}
      \cup {edition(t) : t \in {"book-edition", "book_edition", "bookEdition", "BookEdition"}}
      \cup {editions(t) : t \in {"book-editions", "book_editions", "bookEditions", "book editions"}}
      \cup {same(t) : t \in {"", "*", "**", "b", "path", "parent", "publisher", "publishers", "settings"}}

Nth(k) == [t \in {text[1] : text \in Texts} |-> (CHOOSE text \in Texts : text[1] = t)[k]]
MCToKebabCase == Nth(2)
MCSnakeCase == Nth(3)
MCLowerCamelCase == Nth(4)
MCCapital == {"", "-", "*", "**", "Publisher", "Settings", "BookEdition", "Publishers"}
MCUpper == {"Publisher", "Settings", "BookEdition", "Publishers", "bookEdition", "bookEditions", "bookPath"}
MCUnderscored == {"book_edition", "book_editions", "book_path"}
MCIdentifiers == {"publisher", "book_edition", "book-edition"}

MCPlural == [Publisher |-> "publishers", BookEdition |-> "book-editions", Settings |-> "settings"]
OfPublisher == <<Constant("publishers"), Variable("publisher")>>
MCPattern == [Publisher   |-> OfPublisher,
              BookEdition |-> OfPublisher \o <<Constant("book-editions"), Variable("book_edition")>>,
              Settings    |-> OfPublisher \o <<Constant("settings")>>]

MCTrimmed == [book_path |-> "book"]
MCCounted == [num_books |-> "book_count"]
MCImperative == [created_at |-> {"create_time"}, modified |-> {"update_time"}]
MCClocked == {"create_time", "update_time", "other_time", "length_ms"}
MCInTime == {"create_time", "update_time", "other_time"}
MCInTimes == {"read_times"}

StandardType(noun) == <<Service, MCToKebabCase[noun]>>

NewResource(noun) ==
  [noun |-> noun, form |-> "resource", fields |-> [path |-> PlainField("string")],
   annotation |-> [type |-> StandardType(noun), singular |-> MCToKebabCase[noun],
                   plural |-> MCPlural[noun], patterns |-> <<MCPattern[noun]>>]]

API(nouns, methods) ==
  [resources |-> [n \in nouns |-> NewResource(n)],
   methods |-> {StandardMethod(m[1], m[2], StandardType(m[2])) : m \in methods}]

Reading(noun) == {<<"Get", noun>>, <<"List", noun>>}

APIBase(b) ==
  CASE b = "publisher" -> API({"Publisher"}, Reading("Publisher") \cup {<<"Create", "Publisher">>})
    [] b = "edition"   -> API({"Publisher", "BookEdition"}, Reading("BookEdition"))
    [] b = "settings"  -> API({"Settings"}, {<<"Get", "Settings">>, <<"Update", "Settings">>})
    [] b = "search"    ->
         [resources |-> [SearchBooks |->
            [noun |-> "SearchBooks", form |-> "request", annotation |-> NoAnnotation,
             fields |-> [read_mask |-> PlainField("FieldMask"),
                         ip_address |-> [PlainField("string") EXCEPT !.format = "IPV6"]]]],
          methods |-> {}]

Main(d) == IF "BookEdition" \in DOMAIN d.resources THEN "BookEdition"
           ELSE CHOOSE n \in DOMAIN d.resources : TRUE

(* Another case, for the texts that have two words.                        *)
Respelt(p, kebab, other) ==
  [k \in DOMAIN p |-> IF p[k].name = kebab THEN [p[k] EXCEPT !.name = other] ELSE p[k]]

WrongType ==
  [m \in {"capital type", "unsplit type", "same type"} |->
     CASE m = "capital type" -> <<Service, "BookEdition">>
       [] m = "unsplit type" -> <<"book-edition">>
       [] m = "same type"    -> StandardType("Publisher")]

(* A singleton that does not say so is asked for a List.                   *)
AnnotationMistake(m, r) ==
  LET a == r.annotation
      patterns(Change(_)) == [r EXCEPT !.annotation.patterns = [k \in DOMAIN @ |-> Change(@[k])]]
      respelt(kebab, other) == patterns(LAMBDA p : Respelt(p, kebab, other))
      put(part, value) == IF a = NoAnnotation THEN r ELSE Annotate(r, part, value)
      some  == r.noun # "Settings"
  IN CASE m = "no annotation" /\ some -> [r EXCEPT !.annotation = NoAnnotation]
       [] m = "blank annotation" -> put("type", <<"">>)
       [] m \in DOMAIN WrongType -> put("type", WrongType[m])
       [] m = "singular"         -> put("singular", "bookEdition")
       [] m = "plural"           -> put("plural", "bookEditions")
       [] m = "no plural"        -> put("plural", "")
       [] m = "no patterns" /\ some -> put("patterns", <<>>)
       [] m = "second pattern"   -> put("patterns", a.patterns \o <<<<Constant("book_editions"), Variable("bookEdition")>>>>)
       [] m = "snake case"       -> respelt("book-editions", "book_editions")
       [] m = "camel case"       -> respelt("book-editions", "bookEditions")
       [] m = "space"            -> respelt("book-editions", "book editions")
       [] m = "capital"          -> respelt("publishers", "Publishers")
       [] m = "camel variable"   -> respelt("book_edition", "bookEdition")
       [] m = "short variable"   -> respelt("publisher", "b")
       [] m = "no collection"    -> patterns(LAMBDA p : SelectSeq(p, LAMBDA s : s.name # "book-editions"))
       [] m = "variable first"   -> patterns(LAMBDA p : Tail(p))
       [] OTHER                  -> r

Fielded(r, f, type) == SetField(r, f, PlainField(type))

FieldMistake(m, r) ==
  CASE m = "no path"         -> DropField(r, "path")
    [] m = "optional path"   -> SetField(r, "path", [PlainField("string") EXCEPT !.optional = TRUE])
    [] m = "integer path"    -> Fielded(r, "path", "int32")
    [] m = "uid"             -> Fielded(r, "uid", "string")
    [] m = "id" /\ r.noun = "Publisher" -> Fielded(r, "publisher_id", "string")
    [] m = "created_at"      -> Fielded(r, "created_at", "Timestamp")
    [] m = "created int"     -> Fielded(r, "create_time", "int32")
    [] m = "modified"        -> Fielded(r, "modified", "Timestamp")
    [] m = "opened"          -> Fielded(r, "opened", "Timestamp")
    [] m = "read_times"      -> SetField(r, "read_times", [PlainField("Timestamp") EXCEPT !.repeated = TRUE])
    [] m = "milliseconds"    -> Fielded(r, "length_ms", "uint64")
    [] m = "num_books"       -> Fielded(r, "num_books", "uint32")
    [] m = "first_name"      -> Fielded(r, "first_name", "string")
    [] m = "self_link"       -> Fielded(r, "self_link", "string")
    [] m = "book_path"       -> SetField(r, "book_path", [PlainField("bytes") EXCEPT !.references = TRUE])
    [] m = "ip_address"      -> Fielded(r, "ip_address", "string")
    [] m = "request_id"      -> Fielded(r, "request_id", "string")
    [] m = "read_mask"       -> Fielded(r, "read_mask", "string")
    [] OTHER                 -> r

(* The method of a verb, and the first rule of one that has an HTTP rule.  *)
Changed(d, verb, Change(_)) ==
  [d EXCEPT !.methods = {IF m.verb = verb THEN Change(m) ELSE m : m \in @}]
Gets(d, Change(_)) ==
  Changed(d, "Get", LAMBDA m : IF m.http = <<>> THEN m ELSE SetRule(m, 1, Change(m.http[1])))
Respell(h, from, to) ==
  LET respell(s) == IF s = from THEN to ELSE s IN Rewrite(h, respell)

MethodMistake(m, d) ==
  LET none(verb) == [d EXCEPT !.methods = {n \in @ : n.verb # verb}]
      more(verb) == IF Main(d) \in DOMAIN Pattern
                      THEN [d EXCEPT !.methods =
                              @ \cup {StandardMethod(verb, Main(d), TypeOf(d, Main(d)))}] ELSE d
      refer(type) == [d EXCEPT !.methods =
                        {IF n.reference = <<>> THEN n ELSE [n EXCEPT !.reference = type] : n \in @}]
  IN CASE m = "no Get"         -> none("Get")
       [] m = "no List"        -> none("List")
       [] m = "no methods"     -> [d EXCEPT !.methods = {}]
       [] m = "operation"      -> Changed(d, "Get", LAMBDA n : [n EXCEPT !.operation = TRUE])
       [] m = "stream"         -> Changed(d, "List", LAMBDA n : [n EXCEPT !.streaming = "server"])
       [] m = "two streams"    -> Changed(d, "Get", LAMBDA n : [n EXCEPT !.streaming = "both"])
       [] m = "no HTTP"        -> Changed(d, "List", LAMBDA n : [n EXCEPT !.http = <<>>])
       [] m = "slash"          -> Gets(d, LAMBDA h : [h EXCEPT !.slash = FALSE])
       [] m = "any"            -> Gets(d, LAMBDA h : [h EXCEPT !.template = <<"*">>])
       [] m = "anything"       -> Gets(d, LAMBDA h : [h EXCEPT !.template = <<"publishers", "**">>])
       [] m = "hyphen"         -> Gets(d, LAMBDA h : Respell(h, "*", "-"))
       [] m = "snake URI"      -> Gets(d, LAMBDA h : Respell(h, "book-editions", "book_editions"))
       [] m = "camel URI"      -> Gets(d, LAMBDA h : Respell(h, "book-editions", "bookEditions"))
       [] m = "capital URI"    -> Gets(d, LAMBDA h : Respell(h, "publishers", "Publishers"))
       [] m = "URI variable"   -> Gets(d, LAMBDA h : [h EXCEPT !.var = "bookPath"])
       [] m = "short URI"      -> Gets(d, LAMBDA h : [h EXCEPT !.template = <<"publishers">>])
       [] m = "second rule"    -> Changed(d, "Get", LAMBDA n :
                                    [n EXCEPT !.http = @ \o <<[StandardRule("Get", "Publisher") EXCEPT !.slash = FALSE]>>])
       [] m \in DOMAIN WrongType -> refer(WrongType[m])
       [] m = "other reference" -> refer(WrongType["capital type"])
       [] m = "no reference"   -> refer(<<>>)
       [] m = "Create"         -> more("Create")
       [] m = "Delete"         -> more("Delete")
       [] m = "Add"            -> more("Add")
       [] OTHER                -> d

APIMistaken(m, d) ==
  LET r == d.resources[Main(d)]
  IN  MethodMistake(m, SetResource(d, Main(d), FieldMistake(m, AnnotationMistake(m, r))))

-----------------------------------------------------------------------------

MCSlashed == [x \in {"lib.v1"} |-> "lib/v1"]

Element(k) ==
  [kind |-> k, deprecated |-> FALSE, leading |-> <<NewPart>>, trailing |-> <<>>, detached |-> <<>>]

FileBase ==
  [dir |-> "lib/v1", base |-> "library", package |-> "lib.v1", syntax |-> "proto3", oneLine |-> FALSE,
   deprecated |-> FALSE,
   elements |-> <<Element("service"), Element("message"), Element("enum")>>]

(* The mistakes in comments are those of the message; "service" and "enum" *)
(* deprecate those.                                                        *)
FileMistaken(m, f) ==
  LET where == First(At(f, "message"))
      secret == [NewPart EXCEPT !.internal = TRUE]
      old == [NewPart EXCEPT !.deprecated = TRUE]
      commented(place, s) == [f EXCEPT !.elements[where][place] = @ \o s]
      marked(mark) == commented("leading", <<[NewPart EXCEPT !.markup = {mark}]>>)
  IN CASE m = "directory"       -> [f EXCEPT !.dir = "lib"]
       [] m = "here"            -> [f EXCEPT !.dir = "."]
       [] m = "version"         -> [f EXCEPT !.base = "v1"]
       [] m = "characters"      -> [f EXCEPT !.base = "My Library"]
       [] m = "proto2"          -> [f EXCEPT !.syntax = "proto2"]
       [] m = "one line"        -> [f EXCEPT !.oneLine = TRUE]
       [] m = "old file"        -> [f EXCEPT !.deprecated = TRUE]
       [] m = "service last"    -> [f EXCEPT !.elements = Tail(@) \o <<@[1]>>]
       [] m = "enum first"      -> [f EXCEPT !.elements = <<Last(@)>> \o Front(@)]
       [] m = "enum, message"   -> [f EXCEPT !.elements = @ \o <<Element("enum"), Element("message")>>]
       [] m = "no service"      -> [f EXCEPT !.elements = SelectSeq(@, LAMBDA e : e.kind # "service")]
       [] m = "uncommented"     -> [f EXCEPT !.elements[where].leading = <<>>]
       [] m = "internal"        -> [f EXCEPT !.elements[where].leading = <<secret>>]
       [] m = "internal below"  -> commented("trailing", <<secret>>)
       [] m = "below"           -> commented("trailing", <<[NewPart EXCEPT !.markup = {"HTML"}]>>)
       [] m = "apart"           -> commented("detached", <<old, NewPart>>)
       [] m = "deprecated"      -> [f EXCEPT !.elements[where].deprecated = TRUE]
       [] m = "deprecated last" -> commented("leading", <<old>>)
       [] m \in {"service", "enum"} -> [f EXCEPT !.elements =
            [k \in DOMAIN @ |-> IF @[k].kind = m THEN [@[k] EXCEPT !.deprecated = TRUE] ELSE @[k]]]
       [] m = "link"            -> marked("relative link")
       [] m = "HTML"            -> marked("HTML")
       [] m = "heading"         -> marked("heading")
       [] m = "table"           -> marked("table")
       [] OTHER                 -> f

-----------------------------------------------------------------------------

MCStateful == [BookStatus |-> "BookState", Status |-> "State"]
MCOf == [BookState |-> "Book"]
MCUnspecified == [State |-> "STATE_UNSPECIFIED", BookState |-> "BOOK_STATE_UNSPECIFIED",
                  Status |-> "STATUS_UNSPECIFIED", BookStatus |-> "BOOK_STATUS_UNSPECIFIED",
                  Genre |-> "GENRE_UNSPECIFIED"]

Value(name, number) == [name |-> name, number |-> number]

EnumBase ==
  [name |-> "State", messages |-> {"Book"}, outputOnly |-> TRUE,
   values |-> <<Value("STATE_UNSPECIFIED", 0), Value("ACTIVE", 1)>>]

EnumMistaken(m, e) ==
  LET named(name) == [e EXCEPT !.name = name, !.values[1].name = MCUnspecified[name]]
      valued(name) == [e EXCEPT !.values = @ \o <<Value(name, Len(@))>>]
  IN CASE m = "BookStatus"   -> named("BookStatus")
       [] m = "Status"       -> named("Status")
       [] m = "BookState"    -> named("BookState")
       [] m = "Genre"        -> named("Genre")
       [] m = "no Book"      -> [e EXCEPT !.messages = {"Author"}]
       [] m = "unknown"      -> [e EXCEPT !.values[1].name = "UNKNOWN"]
       [] m = "unspecified"  -> [e EXCEPT !.values[1].name = "UNSPECIFIED"]
       [] m = "input"        -> [e EXCEPT !.outputOnly = FALSE]
       [] m \in {"CANCELED", "FAIL", "FAILURE", "READY", "SUCCESS", "SUCCEEDED"} -> valued(m)
       [] OTHER              -> e

MCDrafts ==
  [method |-> UNION {With(Mistaken, Base(b), Mistakes, Faults) : b \in Bases},
   api |-> UNION {With(APIMistaken, APIBase(b), APIMistakes, Faults) : b \in APIs},
   file |-> With(FileMistaken, FileBase, FileMistakes, Faults + 1),
   enum |-> With(EnumMistaken, EnumBase, EnumMistakes, Faults + 1)]

(* But for operations without annotation, all drafts can be answered for.  *)
ASSUME DraftsAreAnswerable == "unannotated" \in Mistakes \/ AnswerableDrafts

=============================================================================
