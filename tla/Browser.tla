------------------------------- MODULE Browser ------------------------------
(* The web view (browser.c) and its HTML reader (html.c). The net task brings    *)
(* bytes (webfetch.c, Net), the display task renders and draws them, the touch   *)
(* task turns a tap on the panel back into an offset of the text, and the shell  *)
(* sets addresses. A document is a sequence of tokens: what one turn of          *)
(* html_render's loop consumes.                                                  *)
EXTENDS Integers, Sequences, FiniteSets

CONSTANTS
    HTML_TEXT_MAX, HTML_LINKS_MAX,
    COLS, ROWS,         \* of the page area
    Bodies,             \* the responses that may arrive
    TapsOutrunFrames,   \* a tap may come between the lines of browser_frame, or
                        \* before what the last one changed has been drawn
    MaxTokens           \* bound: tokens of a document read by itself

ASSUME BrowserAssumption ==
    /\ HTML_TEXT_MAX \in Nat \ {0} /\ HTML_LINKS_MAX \in Nat
    /\ COLS \in Nat \ {0} /\ ROWS \in Nat \ {0} /\ TapsOutrunFrames \in BOOLEAN /\ MaxTokens \in Nat

VARIABLES
    e_html, e_open,     \* g_text, g_links and the counts; open_link or 0
    e_read,             \* tokens read of the document
    e_body, e_len, e_st,    \* webfetch: the response, how much of it is here, the state
    e_seen,             \* rendered_len and rendered_st
    e_raw, e_edit, e_sel, e_scroll, e_want, e_dirty,
    e_frame,            \* the display task inside browser_frame
    e_rows,             \* g_row_a, g_row_b of the rows drawn
    e_shown,            \* the panel: for each row the link drawn under each column
    h_first,            \* history: the link the first tap was on, as the panel showed it
    h_astray            \* history: a link was followed that was not the one shown

htmlVs  == <<e_html, e_open, e_read>>
fetchVs2 == <<e_body, e_len, e_st>>
viewVs  == <<e_seen, e_raw, e_edit, e_sel, e_scroll, e_want, e_dirty>>
drawVs  == <<e_frame, e_rows, e_shown>>
browserVars == <<htmlVs, fetchVs2, viewVs, drawVs, h_first, h_astray>>

(* ------------------------------ The HTML reader ---------------------------- *)
Refs == {"abs", "root", "rel", "https", "frag"}         \* what an href can be
HtmlTokens == {"x", "sp", "nbsp", "br", "b", "script", "comment", "blank", "/a"} \cup Refs
Empty == [text |-> << >>, links |-> << >>, dropped |-> 0, lost |-> 0]

last(t) == IF t = << >> THEN "none" ELSE t[Len(t)]

put_ch(h, c) ==
    IF Len(h.text) + 1 < HTML_TEXT_MAX THEN [h EXCEPT !.text = Append(@, c)]
    ELSE [h EXCEPT !.dropped = @ + 1]

put_space(h) == IF last(h.text) \in {"none", "sp", "nl"} THEN h ELSE put_ch(h, "sp")

\* The text without the spaces at its end.
Trimmed(t, blanks) ==
    LET kept == {k \in 1 .. Len(t) : t[k] \notin blanks} IN
    SubSeq(t, 1, IF kept = {} THEN 0 ELSE CHOOSE k \in kept : \A j \in kept : j <= k)

put_break(h) ==
    LET g == [h EXCEPT !.text = Trimmed(@, {"sp"})] IN
    IF last(g.text) \in {"none", "nl"} THEN g ELSE put_ch(g, "nl")

\* <a href=...>: the next entry of the table, or counted.
OpenLink(h, r) ==
    IF Len(h.links) < HTML_LINKS_MAX
    THEN [h EXCEPT !.links = Append(@, [start |-> Len(h.text), end |-> Len(h.text), href |-> r])]
    ELSE [h EXCEPT !.lost = @ + 1]

\* </a>: the link ends here; the newest one, if it covers nothing, is taken back.
CloseLink(h, open) ==
    LET g == [h EXCEPT !.links[open].end = Len(h.text)] IN
    IF g.links[open].end = g.links[open].start /\ open = Len(g.links)
    THEN [g EXCEPT !.links = SubSeq(@, 1, open - 1)] ELSE g

\* One turn of the loop: the reader, and the link left open.
html_turn(h, open, tok) ==
    CASE tok \in Refs -> <<OpenLink(h, tok), IF Len(h.links) < HTML_LINKS_MAX THEN Len(h.links) + 1 ELSE open>>
      [] tok = "/a" -> <<IF open = 0 THEN h ELSE CloseLink(h, open), 0>>
      [] tok = "x" -> <<put_ch(h, "x"), open>>
      [] tok \in {"sp", "blank", "b"} -> <<put_space(h), open>>
      [] tok = "nbsp" -> <<put_ch(h, "sp"), open>>
      [] tok \in {"br", "script"} -> <<put_break(h), open>>
      [] OTHER -> <<h, open>>

\* After the loop: an open link ends with the text, blanks at the end are cut.
html_ends(h, open) ==
    LET g == IF open = 0 THEN h ELSE [h EXCEPT !.links[open].end = Len(h.text)] IN
    [g EXCEPT !.text = Trimmed(@, {"sp", "nl"})]

\* Everything up to the blank line, once that has come; otherwise nothing is skipped.
skip_headers(s) ==
    LET blank == {k \in 1 .. Len(s) : s[k] = "blank"} IN
    IF blank = {} THEN s ELSE SubSeq(s, (CHOOSE k \in blank : \A j \in blank : k <= j) + 1, Len(s))

\* The loop over a document: the reader, and the link left open, after each turn.
Turned(s) ==
    LET turn[k \in 0 .. Len(s)] == IF k = 0 THEN <<Empty, 0>>
                                   ELSE html_turn(turn[k - 1][1], turn[k - 1][2], s[k])
    IN turn

html_render(src) ==
    LET s == skip_headers(src) IN
    html_ends(Turned(s)[Len(s)][1], Turned(s)[Len(s)][2])

\* The first link over an offset, or 0.
html_link_at(h, off) ==
    LET over == {i \in 1 .. Len(h.links) : off >= h.links[i].start /\ off < h.links[i].end} IN
    IF over = {} THEN 0 ELSE CHOOSE i \in over : \A j \in over : i <= j

(* --------------------------------- Layout ---------------------------------- *)
\* A row from offset i: to the line break, or COLS columns, cut back to a space.
wrap_one(t, i) ==
    LET n == Len(t)
        stop == {e \in i .. n : e = n \/ e - i = COLS \/ t[e + 1] = "nl"}
        e == CHOOSE x \in stop : \A y \in stop : x <= y
        spaces == {k \in (i + 1) .. (e - 1) : t[k + 1] = "sp"}
        cut == IF e < n /\ t[e + 1] # "nl" /\ e - i = COLS /\ spaces # {}
               THEN CHOOSE k \in spaces : \A j \in spaces : j <= k ELSE e
    IN [a |-> i, b |-> cut, next |-> IF cut < n /\ t[cut + 1] \in {"nl", "sp"} THEN cut + 1 ELSE cut]

\* Every row of a text from an offset on, as the draw and count_rows walk it.
RowsFrom(t) ==
    LET from[i \in 0 .. Len(t)] ==
            IF i = Len(t) THEN << >> ELSE <<wrap_one(t, i)>> \o from[wrap_one(t, i).next]
    IN from

Layout(t) == RowsFrom(t)[0]

RawText(n) == [k \in 1 .. n |-> "x"]
TextNow(h) == IF e_raw THEN RawText(e_len) ELSE h.text

max_scroll(h) == IF Len(Layout(TextNow(h))) > ROWS THEN Len(Layout(TextNow(h))) - ROWS ELSE 0

\* The rows in view at a scroll, and the links under their columns.
Visible(t, scroll) == LET all == Layout(t) IN
    SubSeq(all, scroll + 1, IF scroll + ROWS < Len(all) THEN scroll + ROWS ELSE Len(all))

LinksDrawn(h, rows) ==
    [r \in 1 .. Len(rows) |-> [c \in 0 .. COLS - 1 |->
        LET k == html_link_at(h, rows[r].a + c) IN
        IF e_raw \/ rows[r].a + c >= rows[r].b \/ k = 0 THEN "none" ELSE h.links[k].href]]

BrowserInit ==
    /\ e_html = Empty /\ e_open = 0 /\ e_read = 0
    /\ e_body = << >> /\ e_len = 0 /\ e_st = "idle" /\ e_seen = <<-1, "none">>
    /\ e_raw = FALSE /\ e_edit = FALSE /\ e_sel = 0 /\ e_scroll = 0 /\ e_want = FALSE /\ e_dirty = FALSE
    /\ e_frame = "rest" /\ e_rows = << >> /\ e_shown = << >>
    /\ h_first = "none" /\ h_astray = FALSE

\* What was selected is of no more interest once nothing is.
Forgets == h_first' = IF e_sel' = 0 THEN "none" ELSE h_first

(* --------------------------------- The net task ---------------------------- *)
browser_fetch ==
    /\ e_want /\ e_want' = FALSE /\ e_scroll' = 0
    /\ e_len' = 0 /\ e_st' = "loading" /\ e_body' \in Bodies
    /\ UNCHANGED <<htmlVs, e_seen, e_raw, e_edit, e_sel, e_dirty, drawVs, h_first, h_astray>>

\* Bytes, or the end of them: all there are, or an error.
webfetch_brings ==
    /\ e_st = "loading"
    /\ \/ e_len < Len(e_body) /\ e_len' \in (e_len + 1) .. Len(e_body) /\ UNCHANGED e_st
       \/ e_st' = "over" /\ UNCHANGED e_len
    /\ UNCHANGED <<htmlVs, e_body, viewVs, drawVs, h_first, h_astray>>

(* ------------------------------- The display task -------------------------- *)
Stale == e_seen # <<e_len, e_st>>

draw_text(h) ==
    /\ e_rows' = Visible(TextNow(h), e_scroll) /\ e_shown' = LinksDrawn(h, Visible(TextNow(h), e_scroll))

\* Mutant: the selection outlives the page it was made on.
Reselected_kept == e_sel

\* A page rendered again has nothing selected.
Reselected == 0

\* browser_frame in its three parts: rendered, unselected, drawn.
frame_renders ==
    /\ e_frame = "rest" /\ (Stale \/ e_dirty)
    /\ e_html' = (IF Stale THEN html_render(SubSeq(e_body, 1, e_len)) ELSE e_html)
    /\ e_seen' = <<e_len, e_st>> /\ e_frame' = (IF Stale THEN "rendered" ELSE "draw")
    /\ UNCHANGED <<e_open, e_read, fetchVs2, e_raw, e_edit, e_sel, e_scroll, e_want, e_dirty,
                   e_rows, e_shown, h_first, h_astray>>

frame_unselects ==
    /\ e_frame = "rendered" /\ e_frame' = "draw" /\ e_sel' = Reselected
    /\ Forgets
    /\ UNCHANGED <<htmlVs, fetchVs2, e_seen, e_raw, e_edit, e_scroll, e_want, e_dirty,
                   e_rows, e_shown, h_astray>>

frame_draws ==
    /\ e_frame = "draw" /\ e_frame' = "rest" /\ e_dirty' = FALSE
    /\ IF e_edit THEN UNCHANGED <<e_rows, e_shown>> ELSE draw_text(e_html)
    /\ UNCHANGED <<htmlVs, fetchVs2, e_seen, e_raw, e_edit, e_sel, e_scroll, e_want, h_first, h_astray>>

(* -------------------------------- The touch task --------------------------- *)
\* A link that leads to another address; https and fragments lead nowhere. Which
\* address it is does not matter here: any response may come.
follow(ref) == ref \in {"abs", "root", "rel"}

MayTap == (e_dirty \/ e_frame # "rest") => TapsOutrunFrames

\* The keyboard's own keys, or go: the address typed, if any.
touch_editing ==
    /\ MayTap /\ e_edit /\ e_dirty' = TRUE
    /\ \/ UNCHANGED <<e_edit, e_want>>
       \/ e_edit' = FALSE /\ e_want' = TRUE
    /\ UNCHANGED <<htmlVs, fetchVs2, e_seen, e_raw, e_sel, e_scroll, drawVs, h_first, h_astray>>

\* raw, go and the address field.
touch_url_row ==
    /\ MayTap /\ ~e_edit /\ e_dirty' = TRUE
    /\ \/ e_raw' = ~e_raw /\ e_scroll' = 0 /\ e_sel' = 0 /\ UNCHANGED <<e_want, e_edit>>
       \/ e_want' = TRUE /\ UNCHANGED <<e_raw, e_scroll, e_sel, e_edit>>
       \/ e_edit' = TRUE /\ UNCHANGED <<e_raw, e_scroll, e_sel, e_want>>
    /\ Forgets
    /\ UNCHANGED <<htmlVs, fetchVs2, e_seen, drawVs, h_astray>>

\* The link a place of the panel maps back to.
HitAt(row, col) ==
    IF e_raw \/ row > Len(e_rows) \/ e_rows[row].a + col >= e_rows[row].b THEN 0
    ELSE html_link_at(e_html, e_rows[row].a + col)

\* The first tap selects, the second on the same link follows.
touch_link(row, col) ==
    LET hit == HitAt(row, col) IN
    /\ MayTap /\ ~e_edit /\ row <= Len(e_rows) /\ hit # 0 /\ e_dirty' = TRUE
    /\ IF hit # e_sel
       THEN e_sel' = hit /\ h_first' = e_shown[row][col] /\ UNCHANGED <<e_want, h_astray>>
       ELSE LET ref == e_html.links[hit].href IN
            /\ IF follow(ref) THEN e_sel' = 0 /\ e_want' = TRUE ELSE UNCHANGED <<e_sel, e_want>>
            /\ h_astray' = (h_astray \/ e_shown[row][col] # ref \/ h_first # ref) /\ Forgets
    /\ UNCHANGED <<htmlVs, fetchVs2, e_seen, e_raw, e_edit, e_scroll, drawVs>>

\* Anywhere else in the page: half a screen down or up.
touch_scroll(row, col) ==
    /\ MayTap /\ ~e_edit /\ HitAt(row, col) = 0 /\ e_sel' = 0 /\ e_dirty' = TRUE
    /\ e_scroll' = (IF 2 * row > ROWS
                    THEN (IF e_scroll + ROWS \div 2 > max_scroll(e_html) THEN max_scroll(e_html) ELSE e_scroll + ROWS \div 2)
                    ELSE IF e_scroll >= ROWS \div 2 THEN e_scroll - ROWS \div 2 ELSE 0)
    /\ Forgets
    /\ UNCHANGED <<htmlVs, fetchVs2, e_seen, e_raw, e_edit, e_want, drawVs, h_astray>>

(* ------------------------- The shell and the launcher ---------------------- *)
browser_goto ==
    /\ e_scroll' = 0 /\ e_sel' = 0 /\ e_want' = TRUE /\ e_dirty' = TRUE
    /\ Forgets
    /\ UNCHANGED <<htmlVs, fetchVs2, e_seen, e_raw, e_edit, drawVs, h_astray>>

browser_open ==
    /\ e_edit' = FALSE /\ e_scroll' = 0 /\ e_dirty' = TRUE
    /\ UNCHANGED <<htmlVs, fetchVs2, e_seen, e_raw, e_sel, e_want, drawVs, h_first, h_astray>>

BrowserNext ==
    \/ browser_fetch \/ webfetch_brings
    \/ frame_renders \/ frame_unselects \/ frame_draws
    \/ touch_editing \/ touch_url_row
    \/ (\E row \in 1 .. ROWS, col \in 0 .. COLS - 1 : touch_link(row, col) \/ touch_scroll(row, col))
    \/ browser_goto \/ browser_open

\* The reader by itself, over every document.
html_reads ==
    /\ e_read < MaxTokens /\ e_read' = e_read + 1
    /\ \E tok \in HtmlTokens \ {"root", "https", "frag", "comment"} :
         LET t == html_turn(e_html, e_open, tok) IN e_html' = t[1] /\ e_open' = t[2]
    /\ UNCHANGED <<fetchVs2, viewVs, drawVs, h_first, h_astray>>

BrowserSpec == BrowserInit /\ [][BrowserNext]_browserVars
HtmlSpec == BrowserInit /\ [][html_reads]_browserVars

(* -------------------------------- Properties ------------------------------- *)
\* browser.c:730, "Two taps, not one", and browser.c:246, a tap is "turned back
\* into an offset in the rendered text": the link a second tap follows is the one
\* drawn under the finger and the one the first tap was on, whatever arrives or is
\* scrolled between the two.
FollowsWhatIsShown == ~h_astray

\* Whatever the markup, every letter of the page is in exactly one row that fits
\* the screen, in order, and no row break comes after a blank or another break
\* (html.c:65, browser.c:265).
PageIsReadable ==
    LET page == html_ends(e_html, e_open)  t == page.text  rows == Layout(t) IN
    /\ \A k \in 1 .. Len(t) : t[k] = "x" =>
         Cardinality({r \in 1 .. Len(rows) : rows[r].a < k /\ k <= rows[r].b}) = 1
    /\ \A r \in 1 .. Len(rows) : rows[r].b - rows[r].a <= COLS
    /\ \A k \in 2 .. Len(t) : t[k] = "nl" => t[k - 1] \notin {"sp", "nl"}

\* A tap follows the link the reader saw under it, and no word of the page is
\* lost between the lines (browser.c, html.c).
PageIsTrue == FollowsWhatIsShown /\ PageIsReadable

(* What the code does not keep: the README tells each counterexample.         *)
\* A tap at an offset means one link.
LinksAreApart ==
    \A i, j \in 1 .. Len(e_html.links) : i < j /\ e_html.links[i].start < e_html.links[i].end
        => e_html.links[i].end <= e_html.links[j].start

\* browser.c:283: the scroll never runs off the end of the page.
ScrollIsWithin == e_frame = "rest" /\ ~e_dirty /\ ~Stale => e_scroll <= max_scroll(e_html)
=============================================================================
