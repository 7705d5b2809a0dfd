----------------------------- MODULE SourcePages -----------------------------
(***************************************************************************)
(* What the adapters (app/adapters) take from the answer of a source: the  *)
(* bytes BaseAdapter accepts, the records of a JSON listing and the        *)
(* accounts of an HTML page.                                               *)
(***************************************************************************)
EXTENDS Naturals, Sequences, FiniteSets, FiniteSetsExt

(* The answer *)

\* Of an answer: its status, whether its header declares a length and which, and the
\* chunks its body arrives in.
Answers(Lengths, MaxChunks) ==
  [status : {200, 302}, header : {"none", "number", "odd"}, length : Lengths,
   chunks : UNION {[1..n -> Lengths] : n \in 0..MaxChunks}]

\* _fetch_bytes adds the chunks up and gives up at the first that exceeds max.
Received(answer, max) ==
  LET total[n \in 0..Len(answer.chunks)] ==
        IF n = 0 THEN 0
        ELSE IF total[n - 1] > max THEN total[n - 1]
        ELSE total[n - 1] + answer.chunks[n]
  IN total[Len(answer.chunks)]

Fetched(answer, max) ==
  /\ answer.status = 200
  /\ answer.header # "odd"
  /\ answer.header = "number" => answer.length <= max
  /\ Received(answer, max) <= max

-----------------------------------------------------------------------------
(* A JSON listing *)

\* A field holds the value expected, one that merely equals it in Python (1 for True,
\* True for 1), or another.
Matches == {"exact", "equal", "other"}

Records == [status : Matches, message : Matches, checked : Matches,
            named : BOOLEAN, marked : BOOLEAN]

\* parse_json: identity for the status, the type as well as the value for the check.
Healthy(raw) ==
  /\ raw.status = "exact"
  /\ raw.message = "exact"
  /\ raw.checked = "exact"
  /\ raw.named         \* username is an address, password a text with something in it
  /\ ~ raw.marked      \* some text anywhere in the record has an unhealthy marker

ParseJson(listing) == SelectSeq(listing, Healthy)

-----------------------------------------------------------------------------
(* An HTML page *)

\* A page is the sequence of its elements in document order; up is the element around,
\* 0 for none, and suffix the number in the id of a copy button.
\*   card, flagged   a div with a card's class; flagged has a marker in an attribute
\*   item            an li or an article
\*   div             another div
\*   normal          a span that says the status is normal
\*   marked          an element with a marker in its text or in an attribute
\*   user, pass      copy buttons with a username and with a password
\*   odd             a username button that holds no address
CardKinds == {"card", "flagged", "item"}
Containers == CardKinds \cup {"div"}

Element(kind, suffix, up) == [kind |-> kind, suffix |-> suffix, up |-> up]

\* The elements around an element.
Around(page, e) ==
  LET around[n \in 0..Len(page)] ==
        IF n = 0 \/ page[n].up = 0 THEN {} ELSE {page[n].up} \cup around[page[n].up]
  IN around[e]

Inside(page, c) == {e \in DOMAIN page : c \in Around(page, e)}

NoCard == 0

\* _closest_card: elements inside an element come later.
ClosestCard(page, e) ==
  Max({c \in Around(page, e) : page[c].kind \in CardKinds} \cup {NoCard})

\* The div, p and span elements of a card whose whole text says the status is normal.
StatusNodes(page, c) ==
  {e \in Inside(page, c) :
     /\ page[e].kind \notin {"item", "user", "pass", "odd"}
     /\ \E n \in Inside(page, e) \cup {e} : page[n].kind = "normal"}

\* The buttons of a card with one suffix.
Buttons(page, c, kinds, suffix) ==
  {e \in Inside(page, c) : page[e].kind \in kinds /\ page[e].suffix = suffix}

\* The texts of a card and the attributes of what is inside it.
Marked(page, c) ==
  \E e \in Inside(page, c) : page[e].kind \in {"marked", "flagged"}

PairedAmongTwins(page, u, p, c) ==    \* mutant: another username with the suffix is overlooked
  /\ c # NoCard
  /\ {p} = Buttons(page, c, {"pass"}, page[u].suffix)
  /\ Cardinality(StatusNodes(page, c)) = 1
  /\ ~ Marked(page, c)

\* parse_html pairs u with p in card c.
Paired(page, u, p, c) ==
  /\ c # NoCard
  /\ {u} = Buttons(page, c, {"user", "odd"}, page[u].suffix)
  /\ {p} = Buttons(page, c, {"pass"}, page[u].suffix)
  /\ Cardinality(StatusNodes(page, c)) = 1
  /\ ~ Marked(page, c)

ParseHtml(page) ==
  {pair \in (DOMAIN page) \X (DOMAIN page) :
     /\ page[pair[1]].kind = "user" /\ page[pair[2]].kind = "pass"
     /\ Paired(page, pair[1], pair[2], ClosestCard(page, pair[1]))}

-----------------------------------------------------------------------------
(* What the adapters promise *)

\* The bytes of a body.
Total(chunks) ==
  LET sum[n \in 0..Len(chunks)] == IF n = 0 THEN 0 ELSE sum[n - 1] + chunks[n]
  IN sum[Len(chunks)]

\* Of every answer: no body larger than the limit is accepted, however it is cut into
\* chunks and whatever it declares, and none within it is refused but for the status or
\* for a header that is no number or claims more than the limit.
SizeIsBounded(answer, max) ==
  Fetched(answer, max) <=>
    /\ answer.status = 200
    /\ answer.header = "none" \/ (answer.header = "number" /\ answer.length <= max)
    /\ Total(answer.chunks) <= max

\* No password is handed out for two usernames and no username with two passwords,
\* however the cards of a page are nested and its buttons numbered.
OnePasswordEach(page) ==
  \A x, y \in ParseHtml(page) : x[1] = y[1] <=> x[2] = y[2]
=============================================================================
