-------------------------------- MODULE Label --------------------------------
(***************************************************************************)
(* Labels (crates/trace-mark): templates, the binding engine and the ZPL   *)
(* that is sent to a printer.  Pure.                                       *)
(*                                                                         *)
(* Text is a sequence of tokens: a control character of ZPL, a newline, an *)
(* opening {{, or a word of other characters.  The text of a template is a *)
(* sequence of parts [kind, text]: a literal token, a binding by its name, *)
(* or an opening {{ that nothing closes.  A template is [width, height,    *)
(* dpi, elements], an element [type, x, y, value]; fonts, alignment and    *)
(* symbologies are layout.                                                 *)
(***************************************************************************)
EXTENDS Integers, Sequences, FiniteSets, SequencesExt

CONSTANT None   \* an error

Controls == {"^", "~", "\\"}
Newlines == {"\n", "\r"}
Open     == "{{"

-----------------------------------------------------------------------------
(* Binding. *)

\* BindingContext::resolve: now: is always there, any other name has to be
\* bound.
Resolve(ctx, key) ==
  IF key = "now" THEN <<"date">>
  ELSE IF key \in DOMAIN ctx THEN ctx[key]
  ELSE None

\* Mutant: an unknown name is left blank.
RenderExpression_Blank(text, ctx) ==
  LET value(i) == CASE text[i].kind = "literal" -> <<text[i].text>>
                    [] text[i].kind = "open"    -> None
                    [] OTHER -> IF Resolve(ctx, text[i].text) = None
                                THEN <<>> ELSE Resolve(ctx, text[i].text)
      values   == [i \in DOMAIN text |-> value(i)]
  IN  IF \E i \in DOMAIN text : values[i] = None THEN None ELSE FlattenSeq(values)

\* render_expression: an error when a name is unknown or a binding open; what
\* is substituted is not looked at again.
RenderExpression(text, ctx) ==
  LET value(i) == CASE text[i].kind = "literal" -> <<text[i].text>>
                    [] text[i].kind = "open"    -> None
                    [] OTHER                    -> Resolve(ctx, text[i].text)
      values   == [i \in DOMAIN text |-> value(i)]
  IN  IF \E i \in DOMAIN text : values[i] = None THEN None ELSE FlattenSeq(values)

\* LabelTemplate::bind.
Bind(template, ctx) ==
  LET bound(e) == IF e.type = "BOX" THEN <<>> ELSE RenderExpression(e.value, ctx)
      elements == template.elements
  IN  IF \E i \in DOMAIN elements : bound(elements[i]) = None THEN None
      ELSE [template EXCEPT !.elements =
              [i \in DOMAIN elements |-> [elements[i] EXCEPT !.value = bound(elements[i])]]]

-----------------------------------------------------------------------------
(* Templates and ZPL. *)

\* mm_to_dots: 25.4 mm to the inch, rounded.
MmToDots(mm, dpi) == (mm * dpi * 10 + 127) \div 254

\* LabelTemplate::validate.
Valid(template) ==
  /\ template.width > 0 /\ template.height > 0
  /\ template.dpi # 0
  /\ template.elements # <<>>
  /\ \A i \in DOMAIN template.elements :
       /\ template.elements[i].x < MmToDots(template.width, template.dpi)
       /\ template.elements[i].y < MmToDots(template.height, template.dpi)

\* Mutant: data goes out as it is.
EscapeField_Raw(value) == value

\* escape_field: a control character as its code, a newline as a blank.
EscapeField(value) ==
  [i \in DOMAIN value |->
     CASE value[i] = "^"        -> "_5E"
       [] value[i] = "~"        -> "_7E"
       [] value[i] = "\\"       -> "_5C"
       [] value[i] \in Newlines -> " "
       [] OTHER                 -> value[i]]

\* The commands of one element of a label.
Zpl(e) ==
  CASE e.type = "TEXT"    -> <<"^FO", "^A0", "^FD">> \o EscapeField(e.value) \o <<"^FS">>
    [] e.type = "BARCODE" -> <<"^FO", "^B", "^FD">> \o EscapeField(e.value) \o <<"^FS">>
    [] e.type = "BOX"     -> <<"^FO", "^GB", "^FS">>

\* render_zpl: an error for a template that is not valid or is not bound, and
\* for one that is bound to data with a {{ of its own.
RenderZpl(template) ==
  IF /\ Valid(template)
     /\ \A i \in DOMAIN template.elements : ~Contains(template.elements[i].value, Open)
  THEN <<"^XA", "^PW">>
         \o FlattenSeq([i \in DOMAIN template.elements |-> Zpl(template.elements[i])])
         \o <<"^XZ">>
  ELSE None

\* The reference label.  Its last line is MADE IN INDIA, where the comment on
\* it promises the identity in plain text.
DemoSticker ==
  LET Lit(text)  == [kind |-> "literal", text |-> text]
      Name(name) == [kind |-> "binding", text |-> name]
      Text(x, y, value)    == [type |-> "TEXT", x |-> x, y |-> y, value |-> value]
      Barcode(x, y, value) == [type |-> "BARCODE", x |-> x, y |-> y, value |-> value]
  IN  [width |-> 50, height |-> 25, dpi |-> 203,
       elements |->
         <<Text(12, 12, <<Lit("ElectronIx")>>),
           Text(12, 48, <<Lit("MODEL : "), Name("product.model")>>),
           Text(12, 74, <<Lit("SR NO : "), Name("unit.serial")>>),
           Text(12, 100, <<Lit("JOB   : "), Name("job.number")>>),
           Text(12, 126, <<Lit("DATE  : "), Name("now")>>),
           Barcode(250, 20, <<Name("unit.trace_url")>>),
           Barcode(12, 152, <<Name("unit.serial")>>),
           Text(300, 168, <<Lit("MADE IN INDIA")>>)>>]

-----------------------------------------------------------------------------
(* What a printer makes of a stream, which may be a label or the beginning *)
(* of one.  No code in a field is decoded, which would take a ^FH before   *)
(* it.                                                                     *)

Commands == Controls \cup {"^XA", "^PW", "^FO", "^A0", "^B", "^FD", "^GB", "^FS", "^XZ"}

\* The elements of a sequence at places, in their order.
Those(s, places) == FlattenSeq([i \in DOMAIN s |-> IF i \in places THEN <<s[i]>> ELSE <<>>])

Executed(stream) == Those(stream, {i \in DOMAIN stream : stream[i] \in Commands})

IsWhole(stream) == Last(stream) = "^XZ"

\* summarise, of the printer of device-sim: what it warns of in a label.
Warnings(stream) ==
  LET Count(command) == Cardinality({i \in DOMAIN stream : stream[i] = command})
  IN  (IF Count("^FO") # Count("^FS") THEN {"a field that does not end"} ELSE {})
        \cup (IF Count("^XA") = 0 \/ Count("^XZ") = 0 THEN {"not wrapped"} ELSE {})
        \cup (IF Count(Open) # 0 THEN {"an unresolved binding"} ELSE {})

\* The texts between a ^FD and the next command, in order.
Finished(stream, i) == \E j \in DOMAIN stream : j > i /\ stream[j] \in Commands

FieldEnd(stream, i) ==
  CHOOSE j \in DOMAIN stream :
    /\ j > i /\ stream[j] \in Commands
    /\ \A k \in (i + 1)..(j - 1) : stream[k] \notin Commands

PrintedFields(stream) ==
  FlattenSeq([i \in DOMAIN stream |->
                IF stream[i] = "^FD" /\ Finished(stream, i)
                THEN <<SubSeq(stream, i + 1, FieldEnd(stream, i) - 1)>>
                ELSE <<>>])

\* What came of a field that was cut off.
CutFields(stream) ==
  {SubSeq(stream, i + 1, Len(stream)) :
     i \in {j \in DOMAIN stream : stream[j] = "^FD" /\ ~Finished(stream, j)}}
=============================================================================
