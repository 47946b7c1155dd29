----------------------------- MODULE Navigation ------------------------------
(***************************************************************************)
(* Where "Return" and a saved form lead: the return stack that acme.js     *)
(* keeps as one string in the sessionStorage of a tab, with the pages that *)
(* use it: list.tag, form-return.tag, form-submit.tag, menu-option.tag,    *)
(* menu-suboption.tag and the referrer page AbstractController redirects to. *)
(*                                                                         *)
(* The string is a sequence of tokens, URLs and separators; a URL contains *)
(* no separator, since browsers escape the < and > in it.                  *)
(***************************************************************************)
EXTENDS Integers, Sequences, FiniteSetsExt

CONSTANTS
    Home,        \* "/"
    MenuPages,   \* the listings and forms of the menu
    Items,       \* the forms the rows of a listing lead to
    Buttons,     \* the pages the buttons of a form lead to with GET
    Returning,   \* the pages with a Return button
    Writable,    \* the forms that can be saved
    Sep,         \* ">||<"
    Null,
    MaxPast,     \* bound on the pages the browser remembers
    MaxDepth     \* bound on the listings one goes through

Listings == DOMAIN Items
Forms == DOMAIN Buttons
Pages == Listings \cup Forms \cup {Home}

ASSUME SiteTyped ==
    /\ Listings \cap Forms = {}
    /\ Home \notin Listings \cup Forms
    /\ {Sep, Null} \cap Pages = {}
    /\ Null \notin Seq(Pages \cup {Sep})
    /\ MenuPages \subseteq Pages
    /\ \A l \in Listings : Items[l] \subseteq Forms
    /\ \A f \in Forms : Buttons[f] \subseteq Listings \cup Forms
    /\ Returning \subseteq Listings \cup Forms
    /\ Writable \subseteq Forms
    /\ MaxPast \in Nat \ {0} /\ MaxDepth \in Nat

VARIABLES
    page,    \* the page on the screen, with the listings one has gone through to it
    store,   \* the item "return-stack" of sessionStorage
    past,    \* the pages the browser's Back button leads to, the next one last
    backed   \* Back has been used since the last choice from the menu

vars == <<page, store, past, backed>>

-----------------------------------------------------------------------------
(* The string *)

Shown(url, trail) == [url |-> url, trail |-> trail]

\* mutant: concat without the separator
ConcatAlone(string, url) == Append(string, url)

Concat(string, url) == string \o <<Sep, url>>

\* sessionStorage after pushReturnUrl(url)
Pushed(url) == IF store = Null THEN <<url>> ELSE Concat(store, url)

Separators == {i \in DOMAIN store : store[i] = Sep}

\* mutant: indexOf
FirstSeparator == Min(Separators)

LastSeparator == Max(Separators)

\* popReturnUrl: what it returns, and sessionStorage after it.
Popped ==
    IF store = Null THEN [url |-> Home, store |-> Null]
    ELSE IF Separators = {} THEN [url |-> store[1], store |-> Null]
    ELSE [url |-> store[LastSeparator + 1], store |-> SubSeq(store, 1, LastSeparator - 1)]

-----------------------------------------------------------------------------
(* Pages *)

\* The page that falls beyond the bound of past is forgotten.
Go(url, trail) ==
    /\ past' = IF Len(past) < MaxPast THEN Append(past, page) ELSE Append(Tail(past), page)
    /\ page' = Shown(url, trail)

\* mutant: no clearReturnUrl in the menu
ChooseAndKeep ==
    \E url \in MenuPages :
        /\ Go(url, <<>>)
        /\ backed' = FALSE
        /\ UNCHANGED store

\* menu-option.tag, menu-suboption.tag: clearReturnUrl, redirect
Choose ==
    \E url \in MenuPages :
        /\ Go(url, <<>>)
        /\ store' = Null
        /\ backed' = FALSE

\* list.tag: pushReturnUrl of the listing, redirect to show
Click ==
    /\ page.url \in Listings
    /\ \E url \in Items[page.url] : Go(url, Append(page.trail, page.url))
    /\ store' = Pushed(page.url)
    /\ Len(page.trail) < MaxDepth /\ Len(store') < 2 * MaxDepth
    /\ UNCHANGED backed

\* form-submit.tag with GET: redirect
PressButton ==
    /\ page.url \in Forms
    /\ \E url \in Buttons[page.url] : Go(url, page.trail)
    /\ UNCHANGED <<store, backed>>

Pop ==
    LET trail == page.trail
    IN  /\ Go(Popped.url, IF trail = <<>> THEN <<>> ELSE SubSeq(trail, 1, Len(trail) - 1))
        /\ store' = Popped.store
        /\ UNCHANGED backed

\* form-return.tag without action: redirect to popReturnUrl
Return == page.url \in Returning /\ Pop

\* A POST without errors is answered with redirect:/master/referrer, whose script
\* pops.  With errors the same form comes again, and nothing is popped.
Save == page.url \in Writable /\ Pop

\* The browser's own button: acme.js does not hear of it.
Back ==
    /\ past # <<>>
    /\ page' = past[Len(past)]
    /\ past' = SubSeq(past, 1, Len(past) - 1)
    /\ backed' = TRUE
    /\ UNCHANGED store

Init ==
    /\ page = Shown(Home, <<>>)
    /\ store = Null
    /\ past = <<>>
    /\ backed = FALSE

Next == Choose \/ Click \/ PressButton \/ Return \/ Save \/ Back

Spec == Init /\ [][Next]_vars

-----------------------------------------------------------------------------
(* Properties *)

\* The URLs of the string: every other token.
Split ==
    IF store = Null THEN <<>>
    ELSE [k \in 1 .. (Len(store) + 1) \div 2 |-> store[2 * k - 1]]

\* URLs and separators alternate in the string, and only listings are pushed.
TypeOK ==
    /\ page.url \in Pages
    /\ store # Null =>
        /\ Len(store) % 2 = 1
        /\ \A i \in DOMAIN store : IF i % 2 = 1 THEN store[i] \in Listings ELSE store[i] = Sep
    /\ Len(past) <= MaxPast
    /\ backed \in BOOLEAN

\* The string holds the very listings one has gone through to the page on the
\* screen, so that Return and Save lead to the one it was opened from.  This
\* holds unless Back is used.
StackIsTrail == ~backed => Split = page.trail

\* The string is a stack, whatever the user does: no listing is lost, repeated
\* or reordered by concat, lastIndexOf and substring.
Stack == INSTANCE ReturnStack WITH place <- page.url, stack <- Split, Home <- Home
KeepsStack == Stack!Spec

=============================================================================
