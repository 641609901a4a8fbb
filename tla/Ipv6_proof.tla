------------------------------ MODULE Ipv6_proof ------------------------------
(* Proofs about Ipv6: what is known of a configuration is what was said.    *)
EXTENDS Ipv6, TLAPS

(* The strings the daemon and the dialog have for a field.                  *)
Values(f) ==
    IF f = "Method" THEN Methods ELSE IF f = "Privacy" THEN Privacies ELSE Strings

(* A dictionary of the daemon: its names, and a string for all but one.     *)
IsDict(dict) ==
    /\ DOMAIN dict \subseteq Names
    /\ \A name \in DOMAIN dict \cap Common : dict[name] \in Values(name)

(* The structure, with a NULL for what was not said.                        *)
IsIpv6(ipv6) ==
    /\ ipv6 = [f \in Fields |-> ipv6[f]]
    /\ \A f \in Common : ipv6[f] \in Strings \cup {None}
    /\ ipv6["Prefix"] \in Bytes

TextOK ==
    /\ DOMAIN text = Fields
    /\ \A f \in Common : text[f] \in Values(f)

IInv ==
    /\ IsDict(conf)
    /\ known = None \/ IsIpv6(known)
    /\ TextOK
    /\ KnownAsSaid

-----------------------------------------------------------------------------
LEMMA CommonNames == Common = {"Method", "Address", "Gateway", "Privacy"}
BY DEF Common, Fields, Names

LEMMA ValuesAreStrings == \A f : Values(f) \subseteq Strings
BY DEF Values, Strings

(* An entry with the daemon's own name is the only one found under it.      *)
LEMMA FoundAlone ==
    ASSUME NEW dict, IsDict(dict), NEW f \in Common
    PROVE  /\ Matching(dict, f) = DOMAIN dict \cap {f}
           /\ f \in DOMAIN dict => get_dict_entry(dict, f) = {dict[f]}
<1>1. f # "Prefix" /\ f # "PrefixLength"
  BY DEF Common, Fields, Names
<1>2. Matching(dict, f) = DOMAIN dict \cap {f}
  BY <1>1 DEF Matching, Matches
<1>3. TypeOf(f) = Type(f)
  BY <1>1 DEF TypeOf, Type
<1> QED BY <1>2, <1>3 DEF get_dict_entry

(* Every name of the daemon is found under some field.                      *)
LEMMA NothingFound ==
    ASSUME NEW dict, IsDict(dict)
    PROVE  {f \in Fields : Matching(dict, f) # {}} = {} <=> DOMAIN dict = {}
<1>1. \A name \in Names : \E f \in Fields : Matches(f, name)
  BY DEF Names, Fields, Matches
<1> QED BY <1>1 DEF IsDict, Matching

(* What may be found for a prefix length fits its type.                     *)
LEMMA PrefixFound ==
    ASSUME NEW dict, IsDict(dict), NEW j \in get_dict_entry(dict, "Prefix")
    PROVE  j \in Nat
<1>1. Matching(dict, "Prefix") \subseteq {"PrefixLength"}
  BY DEF Matching, Matches, IsDict, Names
<1>2. TypeOf("PrefixLength") # Type("Prefix")
  BY DEF TypeOf, Type
<1>3. j \in Junk
  BY <1>1, <1>2 DEF get_dict_entry
<1> QED BY <1>3, JunkAssumption

(* A structure is not NULL.                                                 *)
LEMMA StructureNotNull == \A ipv6 : IsIpv6(ipv6) => ipv6 # None
<1> SUFFICES ASSUME NEW ipv6, IsIpv6(ipv6) PROVE ipv6 # None
  OBVIOUS
<1>1. /\ ipv6["Method"] \in Strings \cup {None}
      /\ ipv6["Address"] \in Strings \cup {None}
      /\ ipv6["Gateway"] \in Strings \cup {None}
      /\ ipv6["Privacy"] \in Strings \cup {None}
      /\ ipv6["Prefix"] \in Bytes
  BY CommonNames DEF IsIpv6
<1>2. ipv6 = [Method |-> ipv6["Method"], Address |-> ipv6["Address"],
              Prefix |-> ipv6["Prefix"], Gateway |-> ipv6["Gateway"],
              Privacy |-> ipv6["Privacy"]]
  BY DEF IsIpv6, Fields
<1>3. ipv6 \in Structures BY <1>1, <1>2 DEF Structures
<1> QED BY <1>3, NoneAssumption

(* A field is read from its entry, or keeps what it had.                    *)
LEMMA Parsed ==
    ASSUME NEW dict, IsDict(dict), NEW ipv6, ipv6 = None \/ IsIpv6(ipv6),
           NEW new \in parse_ipv6(dict, ipv6)
    PROVE  /\ DOMAIN dict = {} <=> new = None
           /\ DOMAIN dict # {} =>
                /\ IsIpv6(new)
                /\ \A f \in Common :
                     new[f] = IF f \in DOMAIN dict THEN dict[f]
                              ELSE IF ipv6 = None THEN None ELSE ipv6[f]
<1> DEFINE found == {f \in Fields : Matching(dict, f) # {}}
           old == IF ipv6 = None THEN Fresh ELSE ipv6
           Read(j) == [f \in Fields |->
                         IF f \notin found THEN old[f]
                         ELSE IF f = "Prefix" THEN j % 256
                         ELSE CHOOSE v \in get_dict_entry(dict, f) : TRUE]
<1>1. found = {} <=> DOMAIN dict = {}
  BY NothingFound
<1>2. CASE found = {}
  <2>1. new = None BY <1>2 DEF parse_ipv6
  <2> QED BY <2>1, <1>1, <1>2
<1>3. CASE found # {}
  <2>1. PICK j \in (IF "Prefix" \in found THEN get_dict_entry(dict, "Prefix")
                    ELSE {0}) : new = Read(j)
    BY <1>3, Zenon DEF parse_ipv6
  <2>2. j \in Nat
    BY <2>1, PrefixFound
  <2>3. IsIpv6(old)
    <3>3. Fresh = [f \in Fields |-> Fresh[f]] BY DEF Fresh
    <3>4. \A f \in Common : Fresh[f] = None
      BY DEF Fresh, Common, Fields, Names
    <3>5. Fresh["Prefix"] \in Bytes BY DEF Fresh, Fields, Bytes
    <3> QED BY <3>3, <3>4, <3>5 DEF IsIpv6
  <2>4. ASSUME NEW f \in Common
        PROVE  /\ new[f] = IF f \in DOMAIN dict THEN dict[f]
                           ELSE IF ipv6 = None THEN None ELSE ipv6[f]
               /\ new[f] \in Strings \cup {None}
    <3>1. f \in Fields /\ f # "Prefix"
      BY DEF Common, Fields, Names
    <3>2. CASE f \in DOMAIN dict
      <4>1. f \in found BY <3>1, <3>2, FoundAlone
      <4>2. get_dict_entry(dict, f) = {dict[f]} BY <3>2, FoundAlone
      <4>3. new[f] = dict[f] BY <2>1, <3>1, <4>1, <4>2
      <4> QED BY <4>3, <3>2, ValuesAreStrings DEF IsDict
    <3>3. CASE f \notin DOMAIN dict
      <4>1. f \notin found BY <3>3, FoundAlone
      <4>2. new[f] = old[f] BY <2>1, <3>1, <4>1
      <4>3. old[f] = IF ipv6 = None THEN None ELSE ipv6[f]
        BY <3>1 DEF Fresh
      <4> QED BY <4>2, <4>3, <3>3, <2>3 DEF IsIpv6
    <3> QED BY <3>2, <3>3
  <2>5. new["Prefix"] \in Bytes
    <3>1. j % 256 \in Bytes BY <2>2 DEF Bytes
    <3>2. old["Prefix"] \in Bytes BY <2>3 DEF IsIpv6
    <3>3. new["Prefix"] \in {old["Prefix"], j % 256} BY <2>1 DEF Fields
    <3> QED BY <3>1, <3>2, <3>3
  <2>6. IsIpv6(new)
    <3>3. new = [f \in Fields |-> new[f]] BY <2>1
    <3> QED BY <3>3, <2>4, <2>5 DEF IsIpv6
  <2>7. new # None
    BY <2>6, StructureNotNull
  <2> QED BY <1>1, <1>3, <2>4, <2>6, <2>7
<1> QED BY <1>2, <1>3

(* A dictionary the daemon keeps of one it was sent is one of its own.      *)
LEMMA AcceptedIsDict ==
    ASSUME NEW dict, \A name \in Common : dict[name] \in Values(name)
    PROVE  IsDict(Accepted(dict))
<1>1. DOMAIN Accepted(dict) \subseteq Names
  BY DEF Accepted, Names
<1>2. \A name \in DOMAIN Accepted(dict) : Accepted(dict)[name] = dict[name]
  BY DEF Accepted
<1> QED BY <1>1, <1>2 DEF IsDict

LEMMA DictionariesAreDicts == \A dict \in Dictionaries : IsDict(dict)
<1> DEFINE Off == [name \in {"Method"} |-> "off"]
           Automatic(p) == [name \in {"Method", "Privacy"} |->
                         IF name = "Method" THEN "auto" ELSE p]
           Sent(ends) == [Method |-> "manual", Address |-> ends[1],
                          PrefixLength |-> 64, Gateway |-> ends[2],
                          Privacy |-> "disabled"]
<1> SUFFICES ASSUME NEW dict \in Dictionaries PROVE IsDict(dict)
  OBVIOUS
<1>1. CASE dict = << >>
  <2>1. DOMAIN dict = {} BY <1>1
  <2> QED BY <2>1 DEF IsDict
<1>2. CASE dict = Off
  BY <1>2 DEF IsDict, Names, Values, Methods
<1>3. CASE \E p \in Privacies : dict = Automatic(p)
  <2>1. PICK p \in Privacies : dict = Automatic(p) BY <1>3
  <2>2. DOMAIN dict = {"Method", "Privacy"} BY <2>1
  <2>3. dict["Method"] = "auto" /\ dict["Privacy"] = p BY <2>1
  <2> QED BY <2>2, <2>3 DEF IsDict, Names, Values, Methods
<1>4. CASE \E ends \in Addresses \X (Addresses \cup {""}) :
             dict = Accepted(Sent(ends))
  <2>1. PICK ends \in Addresses \X (Addresses \cup {""}) :
             dict = Accepted(Sent(ends))
    BY <1>4
  <2>2. \A name \in Common : Sent(ends)[name] \in Values(name)
    <3>1. /\ Sent(ends)["Method"] = "manual"
          /\ Sent(ends)["Address"] = ends[1]
          /\ Sent(ends)["Gateway"] = ends[2]
          /\ Sent(ends)["Privacy"] = "disabled"
      OBVIOUS
    <3>2. ends[1] \in Strings /\ ends[2] \in Strings
      BY DEF Strings
    <3> QED BY <3>1, <3>2, CommonNames DEF Values, Methods, Privacies
  <2>3. IsDict(Accepted(Sent(ends))) BY <2>2, AcceptedIsDict
  <2> QED BY <2>1, <2>3
<1>5. \/ dict = << >>
      \/ dict = Off
      \/ \E p \in Privacies : dict = Automatic(p)
      \/ \E ends \in Addresses \X (Addresses \cup {""}) :
             dict = Accepted(Sent(ends))
  <2>1. \/ dict \in {<< >>}
        \/ dict \in {Off}
        \/ dict \in {Automatic(p) : p \in Privacies}
        \/ dict \in {Accepted(Sent(ends)) :
                       ends \in Addresses \X (Addresses \cup {""})}
    BY Zenon DEF Dictionaries
  <2> HIDE DEF Off, Automatic, Sent
  <2> QED BY <2>1
<1> QED BY <1>1, <1>2, <1>3, <1>4, <1>5

(* What is shown of a structure are strings.                                *)
LEMMA ShownIsText ==
    ASSUME TextOK, NEW ipv6, ipv6 = None \/ IsIpv6(ipv6)
    PROVE  /\ DOMAIN Shown(ipv6) = Fields
           /\ \A f \in Common : Shown(ipv6)[f] \in Values(f)
<1>1. CASE ipv6 = None
  <2>1. Shown(ipv6) = [text EXCEPT !.Address = "", !.Prefix = 0, !.Gateway = ""]
    BY <1>1 DEF Shown
  <2>2. DOMAIN text = Fields BY DEF TextOK
  <2>3. /\ Shown(ipv6)["Method"] = text["Method"]
        /\ Shown(ipv6)["Privacy"] = text["Privacy"]
        /\ Shown(ipv6)["Address"] = "" /\ Shown(ipv6)["Gateway"] = ""
    BY <2>1, <2>2 DEF Fields
  <2>4. "" \in Strings BY DEF Strings
  <2>5. \A f \in Common : Shown(ipv6)[f] \in Values(f)
    BY <2>3, <2>4, CommonNames DEF TextOK, Values
  <2> QED BY <2>1, <2>2, <2>5
<1>2. CASE ipv6 # None
  <2>1. Text(ipv6.Address) \in Strings /\ Text(ipv6.Gateway) \in Strings
    BY <1>2, CommonNames DEF IsIpv6, Text, Strings
  <2>2. DOMAIN Shown(ipv6) = Fields
    BY <1>2 DEF Shown, Fields
  <2>3. /\ Shown(ipv6)["Method"] \in Methods
        /\ Shown(ipv6)["Privacy"] \in Privacies
        /\ Shown(ipv6)["Address"] = Text(ipv6.Address)
        /\ Shown(ipv6)["Gateway"] = Text(ipv6.Gateway)
    BY <1>2 DEF Shown, Methods, Privacies
  <2> QED BY <2>1, <2>2, <2>3, CommonNames DEF Values
<1> QED BY <1>1, <1>2

-----------------------------------------------------------------------------
LEMMA InvInit == Init => IInv
<1> SUFFICES ASSUME Init PROVE IInv
  OBVIOUS
<1>1. IsDict(conf) BY DictionariesAreDicts DEF Init
<1>2. TextOK
  <2>1. text = [Method |-> "auto", Address |-> "", Prefix |-> 0, Gateway |-> "",
                Privacy |-> "disabled"]
    BY DEF Init
  <2>2. DOMAIN text = Fields BY <2>1 DEF Fields
  <2>3. /\ text["Method"] = "auto" /\ text["Privacy"] = "disabled"
        /\ text["Address"] = "" /\ text["Gateway"] = ""
    BY <2>1
  <2> QED BY <2>2, <2>3, CommonNames DEF TextOK, Values, Strings, Methods, Privacies
<1>3. KnownAsSaid BY DEF Init, KnownAsSaid
<1> QED BY <1>1, <1>2, <1>3 DEF Init, IInv

(* A notification. *)
LEMMA InvPropertyChanged == IInv /\ property_changed => IInv'
<1> SUFFICES ASSUME IInv, property_changed PROVE IInv'
  OBVIOUS
<1>1. IsDict(conf) /\ conf' = conf
  BY DEF IInv, property_changed
<1>2. /\ DOMAIN conf = {} <=> known' = None
      /\ DOMAIN conf # {} =>
           /\ IsIpv6(known')
           /\ \A f \in Common :
                known'[f] = IF f \in DOMAIN conf THEN conf[f]
                            ELSE IF known = None THEN None ELSE known[f]
  BY <1>1, Parsed DEF IInv, property_changed
<1>3. TextOK'
  <2>1. CASE text' = text
    BY <2>1 DEF IInv, TextOK
  <2>2. CASE text' = Shown(known')
    BY <1>2, <2>2, ShownIsText DEF IInv, TextOK
  <2> QED BY <2>1, <2>2 DEF property_changed, update_ipv6
<1>4. KnownAsSaid'
  <2>1. said' = Said(conf) BY DEF property_changed
  <2>2. CASE DOMAIN conf = {}
    <3>1. said' = << >> BY <2>1, <2>2 DEF Said
    <3> QED BY <1>2, <2>2, <3>1 DEF KnownAsSaid
  <2>3. CASE DOMAIN conf # {}
    <3>1. said' = [name \in DOMAIN said \cup DOMAIN conf |->
                     IF name \in DOMAIN conf THEN conf[name] ELSE said[name]]
      BY <2>1, <2>3, Zenon DEF Said
    <3>2. DOMAIN said' = DOMAIN said \cup DOMAIN conf BY <3>1
    <3>3. said' # << >>
      <4>1. DOMAIN << >> = {} OBVIOUS
      <4> QED BY <2>3, <3>2, <4>1
    <3>4. ASSUME NEW f \in Common
          PROVE  known'[f] = IF f \in DOMAIN said' THEN said'[f] ELSE None
      <4>1. f \in DOMAIN said => known # None /\ known[f] = said[f]
        <5>1. f \in DOMAIN said => said # << >>
          <6>1. DOMAIN << >> = {} OBVIOUS
          <6> QED BY <6>1
        <5> QED BY <5>1 DEF IInv, KnownAsSaid
      <4>2. f \notin DOMAIN said => known = None \/ known[f] = None
        BY DEF IInv, KnownAsSaid
      <4> QED BY <1>2, <2>3, <3>1, <3>2, <4>1, <4>2
    <3> QED BY <1>2, <2>3, <3>3, <3>4 DEF KnownAsSaid
  <2> QED BY <2>2, <2>3
<1> QED BY <1>1, <1>2, <1>3, <1>4 DEF IInv

(* What the user does changes neither what is known nor what was said.      *)
LEMMA InvPopup == IInv /\ cui_settings_popup => IInv'
<1> SUFFICES ASSUME IInv, cui_settings_popup PROVE IInv'
  OBVIOUS
<1>1. conf' = conf /\ known' = known /\ said' = said /\ text' = Shown(known)
  BY DEF cui_settings_popup, update_ipv6
<1>2. TextOK'
  BY <1>1, ShownIsText DEF IInv, TextOK
<1>3. KnownAsSaid' BY <1>1 DEF IInv, KnownAsSaid
<1> QED BY <1>1, <1>2, <1>3 DEF IInv

LEMMA InvEdit ==
    ASSUME IInv, NEW f \in Fields, NEW v, Edit(f, v),
           f \in Common => v \in Values(f)
    PROVE  IInv'
<1>1. /\ conf' = conf /\ known' = known /\ said' = said
      /\ text' = [text EXCEPT ![f] = v]
  BY DEF Edit
<1>2. TextOK'
  BY <1>1 DEF IInv, TextOK, Common
<1>3. KnownAsSaid' BY <1>1 DEF IInv, KnownAsSaid
<1> QED BY <1>1, <1>2, <1>3 DEF IInv

LEMMA InvOk == IInv /\ settings_ok_callback => IInv'
<1> SUFFICES ASSUME IInv, settings_ok_callback PROVE IInv'
  OBVIOUS
<1>1. known' = known /\ said' = said
  BY DEF settings_ok_callback
<1>2. text' \in {text, Shown(known)}
  BY DEF settings_ok_callback, update_ipv6
<1>3. TextOK'
  BY <1>2, ShownIsText DEF IInv, TextOK
<1>4. KnownAsSaid' BY <1>1 DEF IInv, KnownAsSaid
<1>5. IsDict(conf')
  <2> DEFINE new == get_ipv6_configuration
             sent == Appended(new)
  <2>1. conf' \in {conf, Accepted(sent)}
    BY DEF settings_ok_callback
  <2>2. \A name \in Common : sent[name] \in Values(name)
    <3>1. \A name \in Common : new[name] = text[name]
      BY CommonNames DEF get_ipv6_configuration, IInv, TextOK, Fields
    <3>2. \A name \in Common : sent[name] = new[name]
      BY CommonNames DEF Appended
    <3> QED BY <3>1, <3>2 DEF IInv, TextOK
  <2>3. IsDict(Accepted(sent)) BY <2>2, AcceptedIsDict
  <2> QED BY <2>1, <2>3 DEF IInv
<1> QED BY <1>1, <1>3, <1>4, <1>5 DEF IInv

LEMMA InvNext == IInv /\ [Next]_vars => IInv'
<1> SUFFICES ASSUME IInv, [Next]_vars PROVE IInv'
  OBVIOUS
<1>1. CASE property_changed BY <1>1, InvPropertyChanged
<1>2. CASE User
  <2>1. CASE \E v \in Methods : Edit("Method", v)
    BY <2>1, InvEdit DEF Fields, Values
  <2>6. CASE \E v \in Privacies : Edit("Privacy", v)
    BY <2>6, InvEdit DEF Fields, Values
  <2>2. CASE \E v \in Addresses \cup {""} : Edit("Address", v) \/ Edit("Gateway", v)
    BY <2>2, InvEdit DEF Fields, Values, Strings
  <2>3. CASE \E v \in Numbers : Edit("Prefix", v)
    BY <2>3, InvEdit DEF Fields, Common, Names
  <2>4. CASE settings_ok_callback BY <2>4, InvOk
  <2>5. CASE cui_settings_popup BY <2>5, InvPopup
  <2> QED BY <1>2, <2>1, <2>2, <2>3, <2>4, <2>5, <2>6 DEF User
<1>3. CASE \E dict \in Dictionaries : DaemonChanges(dict)
  <2>1. PICK dict \in Dictionaries : DaemonChanges(dict) BY <1>3
  <2>2. conf' = dict /\ UNCHANGED <<known, text, said>>
    BY <2>1 DEF DaemonChanges
  <2>3. IsDict(conf') BY <2>2, DictionariesAreDicts
  <2> QED BY <2>2, <2>3 DEF IInv, TextOK, KnownAsSaid
<1>4. CASE UNCHANGED vars
  BY <1>4 DEF vars, IInv, TextOK, KnownAsSaid
<1> QED BY <1>1, <1>2, <1>3, <1>4 DEF Next

(* What is known of a configuration of ipv6 are the last values that were   *)
(* said of each entry, and an empty dictionary is forgotten: parse_ipv6 of  *)
(* lib/service.c takes no entry for another but the prefix length.          *)
THEOREM KnownIsWhatWasSaid == Spec => []KnownAsSaid
<1>1. IInv => KnownAsSaid BY DEF IInv
<1> QED BY InvInit, InvNext, <1>1, PTL DEF Spec

-----------------------------------------------------------------------------
(* The entries that can be typed into, but for the length.                  *)
Ends == {"Address", "Gateway"}

(* What was said are strings, but for the length.                           *)
SaidOK == \A f \in DOMAIN said \cap Common : said[f] \in Values(f)

(* What is shown of a field nobody edited was said before the dialog was    *)
(* loaded.  Buttons that are greyed show what they like.                    *)
ShownAsLoaded ==
    /\ \A f \in Ends \ edited :
         text[f] = IF f \in DOMAIN loaded THEN loaded[f] ELSE ""
    /\ ~greyed =>
         \A f \in Buttons \ edited :
            text[f] = IF f \in DOMAIN loaded THEN loaded[f] ELSE Unsaid[f]
    /\ text["Prefix"] \in Nat

(* Nothing that is greyed is edited.                                        *)
EditedNotGreyed == edited = {} \/ ~greyed

CountOK == DOMAIN count = DOMAIN Bounds /\ count["ok"] \in Nat

JInv == IInv /\ SaidOK /\ ShownAsLoaded /\ EditedNotGreyed /\ CountOK

(* What the dialog shows once it is loaded, of what is known then.          *)
LEMMA ShownWhenLoaded ==
    ASSUME TextOK, NEW k, NEW s, k = None \/ IsIpv6(k),
           k = None => s = << >>,
           k # None => \A f \in Common :
                          k[f] = IF f \in DOMAIN s THEN s[f] ELSE None,
           \A f \in DOMAIN s \cap Common : s[f] \in Values(f)
    PROVE  /\ \A f \in Ends : Shown(k)[f] = IF f \in DOMAIN s THEN s[f] ELSE ""
           /\ k # None =>
                \A f \in Buttons :
                   Shown(k)[f] = IF f \in DOMAIN s THEN s[f] ELSE Unsaid[f]
           /\ Shown(k)["Prefix"] \in Nat
<1>0. DOMAIN << >> = {} OBVIOUS
<1>1. Ends \subseteq Common /\ Buttons \subseteq Common
  BY CommonNames DEF Ends, Buttons
<1>2. CASE k = None
  <2>1. Shown(k) = [text EXCEPT !.Address = "", !.Prefix = 0, !.Gateway = ""]
    BY <1>2 DEF Shown
  <2>2. DOMAIN text = Fields BY DEF TextOK
  <2>3. /\ Shown(k)["Address"] = "" /\ Shown(k)["Gateway"] = ""
        /\ Shown(k)["Prefix"] = 0
    BY <2>1, <2>2 DEF Fields
  <2>4. DOMAIN s = {} BY <1>0, <1>2
  <2>5. \A f \in Ends : Shown(k)[f] = IF f \in DOMAIN s THEN s[f] ELSE ""
    BY <2>3, <2>4 DEF Ends
  <2>6. 0 \in Nat OBVIOUS
  <2>7. Shown(k)["Prefix"] \in Nat BY <2>3, <2>6, Zenon
  <2> QED BY <1>2, <2>5, <2>7
<1>3. CASE k # None
  <2>1. /\ Shown(k)["Method"] = IF k.Method \in {"auto", "manual"} THEN k.Method
                                ELSE "off"
        /\ Shown(k)["Privacy"] = IF k.Privacy \in {"enabled", "prefered"}
                                 THEN k.Privacy ELSE "disabled"
        /\ \A f \in Ends : Shown(k)[f] = Text(k[f])
        /\ Shown(k)["Prefix"] = k["Prefix"]
    BY <1>3 DEF Shown, Ends
  <2>2. None \notin Strings BY NoneAssumption
  <2>3. \A f \in Ends : Text(k[f]) = IF f \in DOMAIN s THEN s[f] ELSE ""
    BY <1>1, <1>3, <2>2, ValuesAreStrings DEF Text
  <2>4. /\ k.Method = IF "Method" \in DOMAIN s THEN s["Method"] ELSE None
        /\ k.Privacy = IF "Privacy" \in DOMAIN s THEN s["Privacy"] ELSE None
        /\ "Method" \in DOMAIN s => s["Method"] \in Methods
        /\ "Privacy" \in DOMAIN s => s["Privacy"] \in Privacies
    BY <1>3, CommonNames DEF Values
  <2>5. None \notin {"auto", "manual", "enabled", "prefered"}
    BY <2>2 DEF Strings, Methods, Privacies
  <2>6. \A f \in Buttons :
           Shown(k)[f] = IF f \in DOMAIN s THEN s[f] ELSE Unsaid[f]
    BY <2>1, <2>4, <2>5 DEF Buttons, Unsaid, Methods, Privacies
  <2>7. k["Prefix"] \in Nat
    <3>1. \A b \in Bytes : b \in Nat BY DEF Bytes
    <3> QED BY <1>3, <3>1 DEF IsIpv6
  <2> QED BY <2>1, <2>3, <2>6, <2>7
<1> QED BY <1>2, <1>3

LEMMA JInvInit == Init => JInv
<1> SUFFICES ASSUME Init PROVE JInv
  OBVIOUS
<1>0. DOMAIN << >> = {} OBVIOUS
<1>1. IInv BY InvInit
<1>2. SaidOK BY <1>0 DEF Init, SaidOK
<1>3. ShownAsLoaded
  <2>1. text = [Method |-> "auto", Address |-> "", Prefix |-> 0, Gateway |-> "",
                Privacy |-> "disabled"]
    BY DEF Init
  <2>2. text["Address"] = "" /\ text["Gateway"] = "" /\ text["Prefix"] = 0
    BY <2>1
  <2> QED BY <1>0, <2>2 DEF Init, ShownAsLoaded, Ends
<1>4. CountOK BY DEF Init, CountOK, Bounds
<1>5. EditedNotGreyed BY DEF Init, EditedNotGreyed
<1> QED BY <1>1, <1>2, <1>3, <1>4, <1>5 DEF JInv

(* Loading the dialog with what is known.                                   *)
LEMMA LoadKeeps ==
    ASSUME NEW grey, IInv, IInv', SaidOK', update_ipv6(known', said', grey)
    PROVE  ShownAsLoaded' /\ EditedNotGreyed'
<1>1. /\ \A f \in Ends : Shown(known')[f] =
                           IF f \in DOMAIN said' THEN said'[f] ELSE ""
      /\ known' # None =>
           \A f \in Buttons : Shown(known')[f] =
                               IF f \in DOMAIN said' THEN said'[f] ELSE Unsaid[f]
      /\ Shown(known')["Prefix"] \in Nat
  BY ShownWhenLoaded DEF IInv, SaidOK, KnownAsSaid
<1>2. /\ text' = Shown(known') /\ loaded' = said' /\ edited' = {}
      /\ ~greyed' => known' # None
  BY DEF update_ipv6
<1> QED BY <1>1, <1>2 DEF ShownAsLoaded, EditedNotGreyed

LEMMA JInvNext == JInv /\ [Next]_vars => JInv'
<1> SUFFICES ASSUME JInv, [Next]_vars PROVE JInv'
  OBVIOUS
<1>1. IInv' BY InvNext DEF JInv
<1>2. SaidOK'
  <2>1. CASE said' = said BY <2>1 DEF JInv, SaidOK
  <2>2. CASE said' = Said(conf)
    <3>1. CASE DOMAIN conf = {}
      <4>1. DOMAIN said' = {} BY <2>2, <3>1 DEF Said
      <4> QED BY <4>1 DEF SaidOK
    <3>2. CASE DOMAIN conf # {}
      <4>1. said' = [name \in DOMAIN said \cup DOMAIN conf |->
                       IF name \in DOMAIN conf THEN conf[name] ELSE said[name]]
        BY <2>2, <3>2, Zenon DEF Said
      <4> QED BY <4>1 DEF JInv, IInv, IsDict, SaidOK
    <3> QED BY <3>1, <3>2
  <2> QED BY <2>1, <2>2 DEF Next, User, vars, property_changed, Edit,
             settings_ok_callback, cui_settings_popup, DaemonChanges
<1>3. CountOK'
  <2>1. CASE count' = count BY <2>1 DEF JInv, CountOK
  <2>2. CASE \E step \in DOMAIN Bounds : Counted(step)
    BY <2>2 DEF JInv, CountOK, Counted
  <2>3. {"change", "edit", "ok"} \subseteq DOMAIN Bounds BY DEF Bounds
  <2> QED BY <2>1, <2>2, <2>3 DEF Next, User, vars, property_changed, Edit,
             settings_ok_callback, cui_settings_popup, DaemonChanges
<1>4. ShownAsLoaded' /\ EditedNotGreyed'
  <2>1. CASE UNCHANGED <<text, greyed, loaded, edited>>
    BY <2>1 DEF JInv, ShownAsLoaded, EditedNotGreyed
  <2>2. CASE \E grey : update_ipv6(known', said', grey)
    BY <2>2, <1>1, <1>2, LoadKeeps DEF JInv
  <2>3. CASE property_changed
    BY <2>1, <2>2, <2>3 DEF property_changed
  <2>4. ASSUME NEW f, NEW v, Edit(f, v), f = "Prefix" => v \in Nat
        PROVE  ShownAsLoaded' /\ EditedNotGreyed'
    <3>1. /\ text' = [text EXCEPT ![f] = v]
          /\ edited' = edited \cup {f} /\ loaded' = loaded
          /\ ~greyed /\ greyed' = greyed
      BY <2>4 DEF Edit
    <3>2. DOMAIN text = Fields BY DEF JInv, IInv, TextOK
    <3>3. \A g \in Fields \ {f} : text'[g] = text[g]
      BY <3>1, <3>2
    <3>4. \A g \in Ends \ edited' :
            text'[g] = IF g \in DOMAIN loaded' THEN loaded'[g] ELSE ""
      BY <3>1, <3>3 DEF JInv, ShownAsLoaded, Ends, Fields
    <3>5. \A g \in Buttons \ edited' :
            text'[g] = IF g \in DOMAIN loaded' THEN loaded'[g] ELSE Unsaid[g]
      BY <3>1, <3>3 DEF JInv, ShownAsLoaded, Buttons, Fields
    <3>6. text'["Prefix"] \in Nat
      BY <2>4, <3>1, <3>2, <3>3 DEF JInv, ShownAsLoaded, Fields
    <3> QED BY <3>1, <3>4, <3>5, <3>6 DEF ShownAsLoaded, EditedNotGreyed
  <2>5. CASE \E v \in Methods : Edit("Method", v)
    BY <2>4, <2>5
  <2>6. CASE \E v \in Privacies : Edit("Privacy", v)
    BY <2>4, <2>6
  <2>7. CASE \E v \in Addresses \cup {""} : Edit("Address", v) \/ Edit("Gateway", v)
    BY <2>4, <2>7
  <2>8. CASE \E v \in Numbers : Edit("Prefix", v)
    BY <2>4, <2>8, NumberAssumption
  <2>9. CASE settings_ok_callback
    <3>1. known' = known /\ said' = said BY <2>9 DEF settings_ok_callback
    <3> QED BY <2>1, <2>2, <2>9, <3>1 DEF settings_ok_callback
  <2>10. CASE cui_settings_popup
    <3>1. known' = known /\ said' = said BY <2>10 DEF cui_settings_popup
    <3> QED BY <2>2, <2>10, <3>1 DEF cui_settings_popup
  <2>11. CASE \E dict \in Dictionaries : DaemonChanges(dict)
    BY <2>1, <2>11 DEF DaemonChanges
  <2>12. CASE UNCHANGED vars BY <2>1, <2>12 DEF vars
  <2> QED BY <2>3, <2>5, <2>6, <2>7, <2>8, <2>9, <2>10, <2>11, <2>12 DEF Next, User
<1> QED BY <1>1, <1>2, <1>3, <1>4 DEF JInv

(* Only OK counts presses of OK.                                            *)
LEMMA OkCounts == JInv /\ [Next]_vars /\ count'.ok > count.ok => settings_ok_callback
<1> SUFFICES ASSUME JInv, [Next]_vars, ~settings_ok_callback
             PROVE  ~(count'.ok > count.ok)
  OBVIOUS
<1>1. count["ok"] \in Nat /\ "ok" \in DOMAIN count
  BY DEF JInv, CountOK, Bounds
<1>2. count'["ok"] = count["ok"]
  <2>1. CASE count' = count BY <2>1
  <2>2. CASE Counted("edit") \/ Counted("change")
    BY <1>1, <2>2 DEF Counted
  <2> QED BY <2>1, <2>2 DEF Next, User, vars, property_changed, Edit,
             cui_settings_popup, DaemonChanges
<1> QED BY <1>1, <1>2

LEMMA OkStep == JInv /\ [Next]_vars => AsShown
<1> SUFFICES ASSUME JInv, [Next]_vars, conf' # conf, count'.ok > count.ok
             PROVE  AsShown
  BY DEF AsShown
<1> DEFINE sent == Appended(get_ipv6_configuration)
<1>1. conf' = Accepted(sent) /\ edited # {}
  BY OkCounts DEF settings_ok_callback
<1>2. DOMAIN text = Fields BY DEF JInv, IInv, TextOK
<1>3. /\ \A name \in Common : sent[name] = text[name]
      /\ sent["PrefixLength"] = text["Prefix"] % 256
  BY <1>2, CommonNames DEF Appended, get_ipv6_configuration, Fields
<1> HIDE DEF sent
<1>4. \A name \in DOMAIN conf' :
        /\ conf'[name] = sent[name]
        /\ name \in Ends => sent[name] # ""
  BY <1>1 DEF Accepted, Ends
<1>5. Ends \subseteq Common /\ Buttons \subseteq Common
  BY CommonNames DEF Ends, Buttons
<1>6. ASSUME NEW name \in DOMAIN conf', name \in Ends \ edited
      PROVE  name \in DOMAIN loaded /\ conf'[name] = loaded[name]
  <2>1. conf'[name] = text[name] /\ text[name] # ""
    BY <1>3, <1>4, <1>5, <1>6
  <2> QED BY <1>6, <2>1 DEF JInv, ShownAsLoaded
<1>7. ASSUME NEW name \in DOMAIN conf', name \in Buttons \ edited
      PROVE  conf'[name] = IF name \in DOMAIN loaded THEN loaded[name]
                           ELSE Unsaid[name]
  <2>1. conf'[name] = text[name] BY <1>3, <1>4, <1>5, <1>7
  <2>2. ~greyed BY <1>1 DEF JInv, EditedNotGreyed
  <2> QED BY <1>7, <2>1, <2>2 DEF JInv, ShownAsLoaded
<1>8. ASSUME NEW name \in DOMAIN conf', name \in Common
      PROVE  conf'[name] = text[name]
  BY <1>3, <1>4, <1>8
<1>9. ASSUME "PrefixLength" \in DOMAIN conf'
      PROVE  /\ conf'["PrefixLength"] \in Bytes
             /\ (text.Prefix - conf'["PrefixLength"]) % 256 = 0
  <2>1. text["Prefix"] \in Nat BY DEF JInv, ShownAsLoaded
  <2>2. conf'["PrefixLength"] = text["Prefix"] % 256 BY <1>3, <1>4, <1>9
  <2>3. \A n \in Nat : n % 256 \in 0 .. 255 /\ (n - (n % 256)) % 256 = 0
    OBVIOUS
  <2> QED BY <2>1, <2>2, <2>3 DEF Bytes
<1> QED BY <1>6, <1>7, <1>8, <1>9 DEF AsShown, Ends

(* What OK has the daemon do is what the dialog showed: append_ipv6_config  *)
(* of lib/service.c and get_ipv6_configuration of src/settings.c write each *)
(* field under its own name, as it was typed or as it was loaded.           *)
THEOREM OkSendsWhatIsShown == Spec => OkAsShown
<1> QED BY JInvInit, JInvNext, OkStep, PTL DEF Spec, OkAsShown
=============================================================================
