-------------------------- MODULE NavigationProofs --------------------------
(***************************************************************************)
(* The return stack of acme.js for any site and any walk through it.  What *)
(* there is to show is about the one string that holds the stack: pushing  *)
(* keeps URLs and separators alternating, so that the last separator is    *)
(* the token before the last URL, and popping takes just that URL off.     *)
(***************************************************************************)
EXTENDS Navigation, TLAPS

Tokens == Listings \cup {Sep}

\* A string of n URLs with separators in between.
StringOf(string, n) ==
    /\ string \in Seq(Tokens)
    /\ Len(string) = 2 * n - 1
    /\ \A k \in 1 .. n : string[2 * k - 1] \in Listings
    /\ \A k \in 1 .. n - 1 : string[2 * k] = Sep

Stored == store = Null \/ \E n \in Nat \ {0} : StringOf(store, n)

Shows == [url : Pages, trail : Seq(Listings)]

IInv ==
    /\ page \in Shows
    /\ Stored
    /\ past \in Seq(Shows)
    /\ Len(past) <= MaxPast
    /\ backed \in BOOLEAN
    /\ StackIsTrail

-----------------------------------------------------------------------------
(* The string *)

LEMMA Site ==
    /\ Sep \notin Listings
    /\ Home \in Pages /\ Listings \subseteq Pages /\ Forms \subseteq Pages
    /\ MenuPages \subseteq Pages
    /\ \A string \in Seq(Tokens) : string # Null
<1>1. Seq(Tokens) \subseteq Seq(Pages \cup {Sep})
  BY DEF Tokens, Pages
<1>2. \A string \in Seq(Tokens) : string # Null
  BY <1>1, SiteTyped
<1>3. Sep \notin Pages /\ Null \notin Pages
  BY SiteTyped
<1>4. QED
  BY <1>2, <1>3, SiteTyped DEF Pages

\* The two ways to say that URLs and separators alternate.
LEMMA Alternates ==
    ASSUME NEW n \in Nat \ {0}, StringOf(store, n)
    PROVE  /\ Len(store) % 2 = 1
           /\ \A i \in DOMAIN store : IF i % 2 = 1 THEN store[i] \in Listings ELSE store[i] = Sep
<1>1. Len(store) = 2 * n - 1 /\ DOMAIN store = 1 .. 2 * n - 1
  BY DEF StringOf
<1>2. (2 * n - 1) % 2 = 1
  OBVIOUS
<1>3. ASSUME NEW i \in 1 .. 2 * n - 1, i % 2 = 1
      PROVE  store[i] \in Listings
  <2>1. (i + 1) \div 2 \in 1 .. n /\ i = 2 * ((i + 1) \div 2) - 1
    BY <1>3
  <2>2. QED
    BY <2>1 DEF StringOf
<1>4. ASSUME NEW i \in 1 .. 2 * n - 1, i % 2 # 1
      PROVE  store[i] = Sep
  <2>1. i \div 2 \in 1 .. n - 1 /\ i = 2 * (i \div 2)
    BY <1>4
  <2>2. QED
    BY <2>1 DEF StringOf
<1>5. QED
  BY <1>1, <1>2, <1>3, <1>4

\* Split cuts such a string into its n URLs.
LEMMA SplitString ==
    ASSUME NEW n \in Nat \ {0}, StringOf(store, n)
    PROVE  /\ Split = [k \in 1 .. n |-> store[2 * k - 1]]
           /\ Split \in Seq(Listings) /\ Len(Split) = n
<1>1. store # Null
  BY Site DEF StringOf
<1>2. (Len(store) + 1) \div 2 = n
  BY DEF StringOf
<1>3. Split = [k \in 1 .. n |-> store[2 * k - 1]]
  BY <1>1, <1>2 DEF Split
<1>4. QED
  BY <1>3 DEF StringOf

\* The same of the string a step leaves.
LEMMA SplitNext ==
    ASSUME NEW n \in Nat \ {0}, StringOf(store', n)
    PROVE  Split' = [k \in 1 .. n |-> store'[2 * k - 1]]
<1>1. store' # Null
  BY Site DEF StringOf
<1>2. (Len(store') + 1) \div 2 = n
  BY DEF StringOf
<1>3. QED
  BY <1>1, <1>2 DEF Split

\* pushReturnUrl adds its URL to those of the string.
LEMMA PushString ==
    ASSUME Stored, NEW url \in Listings, store' = Pushed(url)
    PROVE  Stored' /\ Split' = Append(Split, url)
<1>1. CASE store = Null
  <2>1. store' = <<url>> /\ Split = <<>>
    BY <1>1 DEF Pushed, Split
  <2>2. StringOf(store', 1)
    BY <2>1 DEF StringOf, Tokens
  <2>3. Split' = [k \in 1 .. 1 |-> store'[2 * k - 1]]
    <3>1. 1 \in Nat \ {0}
      OBVIOUS
    <3>2. QED
      BY <2>2, <3>1, SplitNext, Zenon
  <2>4. QED
    BY <2>1, <2>2, <2>3 DEF Stored
<1>2. ASSUME NEW n \in Nat \ {0}, StringOf(store, n)
      PROVE  Stored' /\ Split' = Append(Split, url)
  <2>1. store' = store \o <<Sep, url>>
    BY <1>2, Site DEF Pushed, Concat, StringOf
  <2>2. /\ store' \in Seq(Tokens) /\ Len(store') = 2 * n + 1
        /\ \A i \in 1 .. 2 * n - 1 : store'[i] = store[i]
        /\ store'[2 * n] = Sep /\ store'[2 * n + 1] = url
    BY <1>2, <2>1 DEF StringOf, Tokens
  <2>3. StringOf(store', n + 1)
    <3>1. ASSUME NEW k \in 1 .. n + 1 PROVE store'[2 * k - 1] \in Listings
      <4>1. CASE k = n + 1
        BY <2>2, <4>1
      <4>2. CASE k \in 1 .. n
        BY <1>2, <2>2, <4>2 DEF StringOf
      <4>3. QED
        BY <4>1, <4>2
    <3>2. ASSUME NEW k \in 1 .. n PROVE store'[2 * k] = Sep
      <4>1. CASE k = n
        BY <2>2, <4>1
      <4>2. CASE k \in 1 .. n - 1
        BY <1>2, <2>2, <4>2 DEF StringOf
      <4>3. QED
        BY <4>1, <4>2
    <3>3. QED
      BY <2>2, <3>1, <3>2 DEF StringOf
  <2>4. Split = [k \in 1 .. n |-> store[2 * k - 1]] /\ Split \in Seq(Listings)
    BY <1>2, SplitString
  <2>5. Split' = [k \in 1 .. n + 1 |-> store'[2 * k - 1]]
    BY <2>3, SplitNext
  <2>6. Append(Split, url) = [k \in 1 .. n + 1 |-> store'[2 * k - 1]]
    <3>1. \A k \in 1 .. n : store'[2 * k - 1] = store[2 * k - 1]
      BY <2>2
    <3>2. store'[2 * (n + 1) - 1] = url
      BY <2>2
    <3>3. QED
      BY <2>4, <3>1, <3>2
  <2>7. QED
    BY <2>3, <2>5, <2>6 DEF Stored
<1>3. QED
  BY <1>1, <1>2 DEF Stored

\* The last separator stands before the last URL.
LEMMA LastIsNext ==
    ASSUME NEW n \in Nat \ {0}, StringOf(store, n)
    PROVE  /\ n = 1 => Separators = {}
           /\ n > 1 => Separators # {} /\ LastSeparator = 2 * n - 2
<1>1. Separators = {i \in 1 .. 2 * n - 1 : store[i] = Sep}
  BY DEF Separators, StringOf
<1>2. store[2 * n - 1] # Sep
  BY Site DEF StringOf
<1>3. CASE n = 1
  BY <1>1, <1>2, <1>3
<1>4. CASE n > 1
  <2>1. 2 * n - 2 \in Separators
    <3>1. n - 1 \in 1 .. n - 1 /\ 2 * (n - 1) = 2 * n - 2
      BY <1>4
    <3>2. store[2 * (n - 1)] = Sep
      BY <3>1 DEF StringOf
    <3>3. store[2 * n - 2] = Sep /\ 2 * n - 2 \in 1 .. 2 * n - 1
      BY <3>1, <3>2, <1>4
    <3>4. QED
      BY <1>1, <3>3
  <2>2. \A i \in Separators : 2 * n - 2 >= i /\ i \in Int
    BY <1>1, <1>2
  <2>3. \A m \in Separators : (\A i \in Separators : m >= i) => m = 2 * n - 2
    BY <2>1, <2>2
  <2>4. LastSeparator = 2 * n - 2
    BY <2>1, <2>2, <2>3 DEF LastSeparator, Max
  <2>5. QED
    BY <1>4, <2>1, <2>4
<1>5. QED
  BY <1>3, <1>4

\* popReturnUrl takes the last URL off the string, and gives Home when there is none.
LEMMA PopString ==
    ASSUME Stored, store' = Popped.store
    PROVE  /\ Stored'
           /\ Split = <<>> => Popped.url = Home /\ Split' = <<>>
           /\ Split # <<>> => /\ Popped.url = Split[Len(Split)]
                              /\ Split' = SubSeq(Split, 1, Len(Split) - 1)
<1>1. CASE store = Null
  BY <1>1 DEF Popped, Split, Stored
<1>2. ASSUME NEW n \in Nat \ {0}, StringOf(store, n)
      PROVE  /\ Stored' /\ Split # <<>>
             /\ Popped.url = Split[Len(Split)]
             /\ Split' = SubSeq(Split, 1, Len(Split) - 1)
  <2>1. store # Null
    BY <1>2, Site DEF StringOf
  <2>2. /\ Split = [k \in 1 .. n |-> store[2 * k - 1]]
        /\ Split \in Seq(Listings) /\ Len(Split) = n
    BY <1>2, SplitString
  <2>3. CASE n = 1
    <3>1. Popped = [url |-> store[1], store |-> Null]
      BY <1>2, <2>1, <2>3, LastIsNext DEF Popped
    <3>2. Split' = <<>> /\ Stored'
      BY <3>1 DEF Split, Stored
    <3>3. SubSeq(Split, 1, 0) = <<>>
      BY <2>2
    <3>4. QED
      BY <2>2, <2>3, <3>1, <3>2, <3>3
  <2>4. CASE n > 1
    <3>1. Popped = [url |-> store[2 * n - 1], store |-> SubSeq(store, 1, 2 * n - 3)]
      <4>1. Separators # {} /\ LastSeparator + 1 = 2 * n - 1 /\ LastSeparator - 1 = 2 * n - 3
        BY <1>2, <2>4, LastIsNext
      <4>2. QED
        BY <2>1, <4>1 DEF Popped
    <3>2. store' = SubSeq(store, 1, 2 * n - 3)
      BY <3>1
    <3>3. /\ store' \in Seq(Tokens) /\ Len(store') = 2 * n - 3
          /\ \A i \in 1 .. 2 * n - 3 : store'[i] = store[i]
      BY <1>2, <2>4, <3>2 DEF StringOf
    <3>4. StringOf(store', n - 1)
      <4>1. ASSUME NEW k \in 1 .. n - 1 PROVE store'[2 * k - 1] \in Listings
        <5>1. k \in 1 .. n /\ 2 * k - 1 \in 1 .. 2 * n - 3
          OBVIOUS
        <5>2. QED
          BY <1>2, <3>3, <5>1 DEF StringOf
      <4>2. ASSUME NEW k \in 1 .. n - 2 PROVE store'[2 * k] = Sep
        <5>1. k \in 1 .. n - 1 /\ 2 * k \in 1 .. 2 * n - 3
          OBVIOUS
        <5>2. QED
          BY <1>2, <3>3, <5>1 DEF StringOf
      <4>3. QED
        BY <3>3, <4>1, <4>2 DEF StringOf
    <3>5. Split' = [k \in 1 .. n - 1 |-> store'[2 * k - 1]]
      <4>1. n - 1 \in Nat \ {0}
        BY <2>4
      <4>2. QED
        BY <3>4, <4>1, SplitNext, Zenon
    <3>6. SubSeq(Split, 1, n - 1) = [k \in 1 .. n - 1 |-> store'[2 * k - 1]]
      <4>1. SubSeq(Split, 1, n - 1) = [k \in 1 .. n - 1 |-> Split[k]]
        BY <2>2, <2>4
      <4>2. \A k \in 1 .. n - 1 : Split[k] = store'[2 * k - 1]
        BY <2>2, <3>3
      <4>3. QED
        BY <4>1, <4>2
    <3>7. QED
      BY <2>2, <2>4, <3>1, <3>4, <3>5, <3>6 DEF Stored
  <2>5. QED
    BY <2>3, <2>4
<1>3. QED
  BY <1>1, <1>2 DEF Stored, Split

-----------------------------------------------------------------------------
(* Pages *)

\* What the browser remembers stays within its bound.
LEMMA GoKeeps ==
    ASSUME IInv, NEW url \in Pages, NEW trail \in Seq(Listings), Go(url, trail)
    PROVE  page' = Shown(url, trail) /\ page' \in Shows /\ past' \in Seq(Shows) /\ Len(past') <= MaxPast
<1>1. page' = Shown(url, trail) /\ page' \in Shows
  BY DEF Go, Shown, Shows
<1>2. page \in Shows /\ past \in Seq(Shows) /\ Len(past) <= MaxPast /\ MaxPast \in Nat \ {0}
  BY SiteTyped DEF IInv
<1>3. CASE Len(past) < MaxPast
  <2>1. past' = Append(past, page)
    BY <1>3 DEF Go
  <2>2. QED
    BY <1>1, <1>2, <1>3, <2>1
<1>4. CASE ~(Len(past) < MaxPast)
  <2>1. past' = Append(Tail(past), page) /\ past # <<>>
    BY <1>2, <1>4 DEF Go
  <2>2. Tail(past) \in Seq(Shows) /\ Len(Tail(past)) = Len(past) - 1
    BY <1>2, <2>1
  <2>3. QED
    BY <1>1, <1>2, <2>1, <2>2
<1>5. QED
  BY <1>3, <1>4

LEMMA InitInv == Init => IInv
<1> SUFFICES ASSUME Init PROVE IInv
  OBVIOUS
<1>1. page \in Shows /\ page.trail = <<>>
  BY Site DEF Init, Shown, Shows
<1>2. Stored /\ Split = <<>>
  BY DEF Init, Stored, Split
<1>3. past \in Seq(Shows) /\ Len(past) <= MaxPast
  <2>1. past = <<>>
    BY DEF Init
  <2>2. MaxPast \in Nat
    BY SiteTyped
  <2>3. QED
    BY <2>1, <2>2
<1>4. backed \in BOOLEAN
  BY DEF Init
<1>5. QED
  BY <1>1, <1>2, <1>3, <1>4 DEF IInv, StackIsTrail

\* What Return and Save do to the page, the string and the trail.
LEMMA PopStep ==
    ASSUME IInv, Pop
    PROVE  /\ IInv'
           /\ \/ Split = <<>> /\ page'.url = Home /\ Split' = <<>>
              \/ /\ Split # <<>>
                 /\ page'.url = Split[Len(Split)]
                 /\ Split' = SubSeq(Split, 1, Len(Split) - 1)
<1> DEFINE trail == page.trail
           rest == IF trail = <<>> THEN <<>> ELSE SubSeq(trail, 1, Len(trail) - 1)
<1>1. Go(Popped.url, rest) /\ store' = Popped.store /\ backed' = backed
  BY DEF Pop
<1>2. /\ Stored'
      /\ Split = <<>> => Popped.url = Home /\ Split' = <<>>
      /\ Split # <<>> => /\ Popped.url = Split[Len(Split)]
                         /\ Split' = SubSeq(Split, 1, Len(Split) - 1)
  BY <1>1, PopString DEF IInv
<1>3. Split \in Seq(Listings)
  <2>1. CASE store = Null
    BY <2>1 DEF Split
  <2>2. QED
    BY <2>1, SplitString DEF IInv, Stored
<1>4. Popped.url \in Pages
  <2>1. CASE Split = <<>>
    BY <1>2, <2>1, Site
  <2>2. CASE Split # <<>>
    <3>1. Split[Len(Split)] \in Listings
      BY <1>3, <2>2
    <3>2. QED
      BY <1>2, <2>2, <3>1, Site
  <2>3. QED
    BY <2>1, <2>2
<1>5. trail \in Seq(Listings)
  BY DEF IInv, Shows
<1>6. rest \in Seq(Listings)
  BY <1>5
<1>7. /\ page' = Shown(Popped.url, rest) /\ page' \in Shows
      /\ past' \in Seq(Shows) /\ Len(past') <= MaxPast
  <2> HIDE DEF rest
  <2> QED
    BY <1>1, <1>4, <1>6, GoKeeps
<1>8. page'.url = Popped.url /\ page'.trail = rest
  <2> HIDE DEF rest
  <2> QED
    BY <1>7 DEF Shown
<1>9. StackIsTrail'
  <2>1. ~backed => Split' = rest
    BY <1>2 DEF IInv, StackIsTrail
  <2>2. QED
    BY <1>1, <1>8, <2>1 DEF StackIsTrail
<1>10. IInv'
  BY <1>1, <1>2, <1>7, <1>9 DEF IInv
<1>11. QED
  BY <1>2, <1>8, <1>10

LEMMA ChooseStep ==
    ASSUME IInv, Choose
    PROVE  IInv' /\ Split' = <<>>
<1>1. PICK url \in MenuPages : Go(url, <<>>)
  BY DEF Choose
<1>2. store' = Null /\ backed' = FALSE
  BY DEF Choose
<1>3. Split' = <<>> /\ Stored'
  BY <1>2 DEF Split, Stored
<1>4. /\ page' = Shown(url, <<>>) /\ page' \in Shows
      /\ past' \in Seq(Shows) /\ Len(past') <= MaxPast
  <2>1. url \in Pages
    BY Site
  <2>2. <<>> \in Seq(Listings)
    OBVIOUS
  <2>3. QED
    BY <1>1, <2>1, <2>2, GoKeeps, Zenon
<1>5. QED
  BY <1>2, <1>3, <1>4 DEF IInv, StackIsTrail, Shown

LEMMA ClickStep ==
    ASSUME IInv, Click
    PROVE  IInv' /\ Split' = Append(Split, page.url)
<1>1. PICK url \in Items[page.url] : Go(url, Append(page.trail, page.url))
  BY DEF Click
<1>2. page.url \in Listings /\ store' = Pushed(page.url) /\ backed' = backed
  BY DEF Click
<1>3. Stored' /\ Split' = Append(Split, page.url)
  BY <1>2, PushString DEF IInv
<1>4. url \in Pages /\ Append(page.trail, page.url) \in Seq(Listings)
  BY <1>1, <1>2, Site, SiteTyped DEF IInv, Shows
<1>5. /\ page' = Shown(url, Append(page.trail, page.url)) /\ page' \in Shows
      /\ past' \in Seq(Shows) /\ Len(past') <= MaxPast
  BY <1>1, <1>4, GoKeeps
<1>6. StackIsTrail'
  BY <1>2, <1>3, <1>5 DEF IInv, StackIsTrail, Shown
<1>7. QED
  BY <1>2, <1>3, <1>5, <1>6 DEF IInv

LEMMA ButtonStep ==
    ASSUME IInv, PressButton
    PROVE  IInv' /\ Split' = Split
<1>1. PICK url \in Buttons[page.url] : Go(url, page.trail)
  BY DEF PressButton
<1>2. page.url \in Forms /\ store' = store /\ backed' = backed
  BY DEF PressButton
<1>3. Stored' /\ Split' = Split
  BY <1>2 DEF IInv, Stored, Split
<1>4. url \in Pages /\ page.trail \in Seq(Listings)
  BY <1>1, <1>2, Site, SiteTyped DEF IInv, Shows
<1>5. /\ page' = Shown(url, page.trail) /\ page' \in Shows
      /\ past' \in Seq(Shows) /\ Len(past') <= MaxPast
  BY <1>1, <1>4, GoKeeps
<1>6. StackIsTrail'
  BY <1>2, <1>3, <1>5 DEF IInv, StackIsTrail, Shown
<1>7. QED
  BY <1>2, <1>3, <1>5, <1>6 DEF IInv

LEMMA BackStep ==
    ASSUME IInv, Back
    PROVE  IInv' /\ Split' = Split
<1>1. /\ past \in Seq(Shows) /\ past # <<>> /\ Len(past) <= MaxPast
      /\ page' = past[Len(past)] /\ past' = SubSeq(past, 1, Len(past) - 1)
  BY DEF IInv, Back
<1>2. PICK n \in Nat : Len(past) = n + 1
  <2>1. Len(past) - 1 \in Nat /\ Len(past) = Len(past) - 1 + 1
    BY <1>1
  <2>2. QED
    BY <2>1
<1>3. page' \in Shows /\ past' \in Seq(Shows) /\ Len(past') <= MaxPast
  <2>1. page' = past[n + 1] /\ past' = SubSeq(past, 1, n)
    BY <1>1, <1>2
  <2>2. past' \in Seq(Shows) /\ Len(past') = n
    BY <1>1, <1>2, <2>1
  <2>3. MaxPast \in Nat
    BY SiteTyped
  <2>4. QED
    BY <1>1, <1>2, <2>1, <2>2, <2>3
<1>4. Stored' /\ Split' = Split
  BY DEF IInv, Back, Stored, Split
<1>5. QED
  BY <1>3, <1>4 DEF IInv, Back, StackIsTrail

LEMMA StutterStep ==
    ASSUME IInv, UNCHANGED vars
    PROVE  IInv' /\ Split' = Split
BY DEF vars, IInv, Stored, Split, StackIsTrail

LEMMA NextInv == IInv /\ [Next]_vars => IInv'
BY ChooseStep, ClickStep, ButtonStep, BackStep, StutterStep, PopStep DEF Next, Return, Save

LEMMA Invariance == Spec => []IInv
BY InitInv, NextInv, PTL DEF Spec

-----------------------------------------------------------------------------
(* The theorems *)

\* URLs and separators alternate, whatever is pushed and popped.
THEOREM TypeCorrect == Spec => []TypeOK
<1>1. IInv => TypeOK
  <2> SUFFICES ASSUME IInv PROVE TypeOK
    OBVIOUS
  <2>1. page.url \in Pages /\ Len(past) <= MaxPast /\ backed \in BOOLEAN
    BY DEF IInv, Shows
  <2>2. store # Null =>
          /\ Len(store) % 2 = 1
          /\ \A i \in DOMAIN store : IF i % 2 = 1 THEN store[i] \in Listings ELSE store[i] = Sep
    BY Alternates DEF IInv, Stored
  <2>3. QED
    BY <2>1, <2>2 DEF TypeOK
<1>2. QED
  BY <1>1, Invariance, PTL

\* Without the browser's Back, the string is the way one has come.
THEOREM ReturnsWhereOneCameFrom == Spec => []StackIsTrail
<1>1. IInv => StackIsTrail
  BY DEF IInv
<1>2. QED
  BY <1>1, Invariance, PTL

\* concat, lastIndexOf and substring implement a stack of any depth, Back or not.
THEOREM StringIsStack == Spec => KeepsStack
<1>1. Init => Stack!Init
  BY DEF Init, Stack!Init, Split
<1>2. IInv /\ [Next]_vars => [Stack!Next]_<<page.url, Split>>
  <2> SUFFICES ASSUME IInv, [Next]_vars
               PROVE  Stack!Next \/ (page.url' = page.url /\ Split' = Split)
    OBVIOUS
  <2>1. CASE Choose
    BY <2>1, ChooseStep DEF Stack!Next, Stack!Restart
  <2>2. CASE Click
    BY <2>2, ClickStep DEF Stack!Next, Stack!Enter
  <2>3. CASE PressButton \/ Back \/ UNCHANGED vars
    BY <2>3, ButtonStep, BackStep, StutterStep DEF Stack!Next, Stack!Follow
  <2>4. CASE Return \/ Save
    BY <2>4, PopStep DEF Return, Save, Stack!Next, Stack!Return, Stack!ReturnHome
  <2>5. QED
    BY <2>1, <2>2, <2>3, <2>4 DEF Next
<1>3. QED
  BY <1>1, <1>2, Invariance, PTL DEF Spec, KeepsStack, Stack!Spec

=============================================================================
