------------------------------ MODULE Template ------------------------------
(***************************************************************************)
(* template.js as the administration pages use it: template(text, data)    *)
(* compiles the text of a page and renders the data with it, with the      *)
(* options the library starts with.                                        *)
(*                                                                         *)
(* A text is a sequence of tokens: a tag, a quote, a line end, a piece of  *)
(* script ("=", ":", a name, "each" for the head of a loop over the rows   *)
(* of the data, "end" for its brace) or a piece of html; no page holds a   *)
(* backslash.  Loops are not nested; the "if" that one page has in its     *)
(* loop is left out.                                                       *)
(***************************************************************************)
EXTENDS Naturals, SequencesExt

CONSTANTS NotCalled,  \* no page shown yet
          Templates,  \* the texts of pages
          Datas       \* data: vars maps names to values, rows is a sequence of such maps

VARIABLE tplPage      \* the last call of template(): its text, its data and the page

tplVars == <<tplPage>>

sTag == "<%"
eTag == "%>"
ErrorPage == <<"template.js error">>
Space == {"nl", "cr", "ws"}
------------------------------------------------------------------------------
(* encodeHTML is six replacements one after the other.  An entity is "&"   *)
(* followed by the rest of it.                                             *)

Replace(s, c, entity) == FlattenSeq([i \in DOMAIN s |-> IF s[i] = c THEN <<"&", entity>>
                                                                    ELSE <<s[i]>>])
AmpersandLast(s) ==
  Replace(Replace(Replace(Replace(Replace(Replace(s, "<", "lt;"), ">", "gt;"),
          "back", "#92;"), "quote", "quot;"), "apos", "#39;"), "&", "amp;")
encodeHTML(s) ==
  Replace(Replace(Replace(Replace(Replace(Replace(s, "&", "amp;"), "<", "lt;"), ">", "gt;"),
          "back", "#92;"), "quote", "quot;"), "apos", "#39;")
------------------------------------------------------------------------------
(* parse.  A line end of the text becomes a space, its quotes are escaped. *)
Split(s, tag) == FoldLeft(LAMBDA acc, t : IF t = tag THEN Append(acc, <<>>)
                                          ELSE ReplaceAt(acc, Len(acc), Append(Last(acc), t)),
                          <<(<<>>)>>, s)

parsehtml(html) ==
  [op |-> "text", text |-> [i \in DOMAIN html |-> IF html[i] \in {"nl", "cr"} THEN "ws"
                                                                          ELSE html[i]]]

(* <%=name%> outputs the name escaped, <%:=name%> as it is, if the tag     *)
(* holds no line end; what else is in a tag is a statement.                *)
parsejs(line) ==
  LET outputs(head) == /\ Len(line) = Len(head) + 1 /\ IsPrefix(head, line)
                       /\ Last(line) \notin {"nl", "cr"}
      statement == SelectSeq(line, LAMBDA t : t \notin Space)
  IN CASE outputs(<<"=">>)      -> [op |-> "escaped", text |-> <<Last(line)>>]
       [] outputs(<<":", "=">>) -> [op |-> "raw", text |-> <<Last(line)>>]
       [] statement = <<>>      -> [op |-> "text", text |-> <<>>]
       [] OTHER                 -> [op |-> statement[1], text |-> <<>>]

(* What follows a second end tag in a piece is dropped.                    *)
parseTextFirst(tpl) ==
  LET pieces == Split(tpl, sTag)
      code(p) == LET token == Split(p, eTag)
                 IN IF Len(token) = 1 THEN <<parsehtml(token[1])>> ELSE <<parsejs(token[1])>>
  IN FlattenSeq([i \in DOMAIN pieces |-> code(pieces[i])])
parse(tpl) ==
  LET pieces == Split(tpl, sTag)
      code(p) == LET token == Split(p, eTag)
                 IN IF Len(token) = 1 THEN <<parsehtml(token[1])>>
                    ELSE <<parsejs(token[1])>>
                         \o (IF token[2] = <<>> THEN <<>> ELSE <<parsehtml(token[2])>>)
  IN FlattenSeq([i \in DOMAIN pieces |-> code(pieces[i])])

(* The generated function is accepted if the braces of its loops match.    *)
compiler(code) ==
  LET braces == SelectSeq([i \in DOMAIN code |-> code[i].op], LAMBDA o : o \in {"each", "end"})
  IN /\ Len(braces) % 2 = 0
     /\ \A i \in DOMAIN braces : braces[i] = IF i % 2 = 1 THEN "each" ELSE "end"
------------------------------------------------------------------------------
(* render: the statements of a loop run once for each row.                 *)
LoopOf(code, i) == {j \in 1..i : /\ code[j].op = "each"
                                 /\ \A k \in j..i : code[k].op # "end"}
EndOf(code, j)  == CHOOSE k \in j..Len(code) : /\ code[k].op = "end"
                                               /\ \A l \in j..k-1 : code[l].op # "end"

(* An undefined name is output as "".                                      *)
Emit(instr, env) ==
  LET value == IF instr.text[1] \in DOMAIN env THEN env[instr.text[1]] ELSE <<>>
  IN CASE instr.op = "text"    -> instr.text
       [] instr.op = "escaped" -> encodeHTML(value)
       [] instr.op = "raw"     -> value
       [] OTHER                -> <<>>

EmitAll(code, a, b, env) == FlattenSeq([i \in 1..b-a+1 |-> Emit(code[a+i-1], env)])

Page(tpl, data) ==
  LET code  == parse(tpl)
      at(i) == CASE LoopOf(code, i) = {} -> Emit(code[i], data.vars)
                 [] code[i].op = "each"  ->
                      FlattenSeq([n \in DOMAIN data.rows |->
                        EmitAll(code, i+1, EndOf(code, i)-1, data.rows[n] @@ data.vars)])
                 [] OTHER -> <<>>
  IN IF compiler(code) THEN FlattenSeq([i \in DOMAIN code |-> at(i)]) ELSE ErrorPage
------------------------------------------------------------------------------
TplInit == tplPage = NotCalled

template == \E tpl \in Templates, data \in Datas :
              tplPage' = [tpl |-> tpl, data |-> data, html |-> Page(tpl, data)]

TplNext == template
------------------------------------------------------------------------------
(* What was shown is the page of a text and of data.                       *)
TplTypeOK == tplPage # NotCalled => tplPage.tpl \in Templates /\ tplPage.data \in Datas

(* What a browser shows for escaped text.                                  *)
Entity == ("amp;" :> "&") @@ ("lt;" :> "<") @@ ("gt;" :> ">") @@ ("#92;" :> "back")
          @@ ("quot;" :> "quote") @@ ("#39;" :> "apos")
Shown(html) ==
  FoldLeft(LAMBDA acc, t : IF acc # <<>> /\ Last(acc) = "&" /\ t \in DOMAIN Entity
                           THEN Append(Front(acc), IF t = "amp;" THEN "&-" ELSE Entity[t])
                           ELSE Append(acc, t), <<>>, html)
Plain(shown) == [i \in DOMAIN shown |-> IF shown[i] = "&-" THEN "&" ELSE shown[i]]

(* <%=name%> shows every value as it is, and none of the value is markup:  *)
(* encodeHTML must replace the & of the value before it writes the & of    *)
(* its entities.                                                           *)
EscapedValueIsShown ==
  /\ tplPage # NotCalled /\ "name" \in DOMAIN tplPage.data.vars
  /\ tplPage.tpl = <<sTag, "=", "name", eTag>>
  => /\ Plain(Shown(tplPage.html)) = tplPage.data.vars["name"]
     /\ ToSet(tplPage.html) \cap {"<", ">", "quote", "apos"} = {}

(* A template whose tags alternate keeps all the text outside of its tags, *)
(* in order, line ends as spaces (parsehtml): text before, between and     *)
(* after tags goes three different ways through parse.                     *)
Tags(tpl) == SelectSeq(tpl, LAMBDA t : t \in {sTag, eTag})
Alternating(tpl) == /\ Len(Tags(tpl)) % 2 = 0
                    /\ \A i \in DOMAIN Tags(tpl) :
                         Tags(tpl)[i] = IF i % 2 = 1 THEN sTag ELSE eTag
Outside(tpl) ==
  FoldLeft(LAMBDA acc, t : CASE t = sTag -> [acc EXCEPT !.in = TRUE]
                             [] t = eTag -> [acc EXCEPT !.in = FALSE]
                             [] OTHER -> IF acc.in THEN acc ELSE
                                  [acc EXCEPT !.s = Append(@, IF t \in {"nl", "cr"} THEN "ws" ELSE t)],
           [in |-> FALSE, s |-> <<>>], tpl).s
TextIsKept ==
  tplPage # NotCalled /\ Alternating(tplPage.tpl)
  => LET text == SelectSeq(parse(tplPage.tpl), LAMBDA instr : instr.op = "text")
     IN FlattenSeq([i \in DOMAIN text |-> text[i].text]) = Outside(tplPage.tpl)
==============================================================================
