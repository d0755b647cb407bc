---------------------------- MODULE OrderAddress ----------------------------
(***************************************************************************)
(* The address an order is sent to: the checkout page finds it by the      *)
(* position of the device, by the text the customer types, or among the    *)
(* addresses saved for the phone. Positions and names of places come from  *)
(* outside, late, in any order or not at all. Lines of text are named by   *)
(* the place they describe. The phone is complete and stays the same; the  *)
(* time of the delivery and the amounts are modelled elsewhere.            *)
(* Source: checkout-screen.tsx, customers.service.ts, orders.service.ts    *)
(***************************************************************************)
EXTENDS Naturals, FiniteSetsExt

CONSTANTS Places,       \* places, which stand for their coordinates and names too
          FormManners,  \* "calm": the customer waits for all answers; "hasty"
          MaxFormActs,  \* bound: what the customer does, in each manner
          MaxSaved      \* bound: addresses ever saved

ASSUME AddressAssumption ==
    /\ FormManners \subseteq {"calm", "hasty"} /\ MaxFormActs \in [FormManners -> Nat]
    /\ IsFiniteSet(Places) /\ MaxSaved \in Nat \ {0}
    /\ {"nowhere", "no line", "automatic"} \cap Places = {}

VARIABLES
    formManner,  \* chosen at the start
    form,        \* the state of the page
    locating,    \* requests for the position of the device
    reverses,    \* positions whose name is looked up
    forward,     \* texts whose position is looked up: the newest only
    calls,       \* answers of the address book, on their way
    saved,       \* rows of CustomerAddress
    savedIds,
    placing,     \* the order under way
    meant,       \* history: the place the customer last chose, and whether its text is
                 \* still its name
    formActs
formVars == <<formManner, form, locating, reverses, forward, calls, saved, savedIds,
              placing, meant, formActs>>

Nowhere == "nowhere"
NoLine == "no line"        \* no text, or too short a text
Automatic == "automatic"   \* "Avtomatik aniqlangan joylashuv"
Lines == Places \cup {Automatic, NoLine}
NoBody == {}

EmptyForm == [mode |-> "AUTO", text |-> NoLine, edit |-> FALSE, geo |-> "idle",
              coords |-> Nowhere, line |-> NoLine, picked |-> 0, keep |-> FALSE,
              list |-> {}]

AddressTypeOK ==
    /\ formManner \in FormManners
    /\ form.mode \in {"AUTO", "MANUAL"} /\ form.text \in Lines /\ form.line \in Lines
    /\ form.geo \in {"idle", "loading", "ok", "failed"}
    /\ form.coords \in Places \cup {Nowhere}
    /\ \A r \in saved : r.at \in Places /\ r.line \in Lines \ {NoLine}
    /\ {r.id : r \in saved} \subseteq 1 .. savedIds
    /\ reverses \subseteq Places /\ forward \subseteq Lines
    /\ locating \in 0 .. 2 /\ savedIds \in 0 .. MaxSaved

\* The list of saved addresses is asked for; one may be there.
AddressInit ==
    /\ formManner \in FormManners
    /\ form = EmptyForm /\ locating = 0 /\ reverses = {} /\ forward = {}
    /\ \E places \in SUBSET Places :
          /\ Cardinality(places) <= 1 /\ savedIds = Cardinality(places)
          /\ saved = {[id |-> 1, at |-> p, line |-> p, default |-> TRUE] : p \in places}
    /\ calls = {[kind |-> "load"]}
    /\ placing = NoBody /\ formActs = 0
    /\ meant = [at |-> Nowhere, missed |-> FALSE, reworded |-> FALSE]

-----------------------------------------------------------------------------
(* The form. *)

\* The effect that looks a typed text up begins anew when text or mode have changed.
Renders(f) ==
    /\ form' = f
    /\ forward' = IF <<f.mode, f.text>> = <<form.mode, form.text>> THEN forward
                  ELSE IF f.mode = "MANUAL" /\ f.text # NoLine THEN {f.text} ELSE {}

Quiet == locating = 0 /\ reverses = {} /\ forward = {} /\ calls = {} /\ placing = NoBody

Acts ==
    /\ formActs < MaxFormActs[formManner] /\ formActs' = formActs + 1
    /\ formManner = "calm" => Quiet
    /\ UNCHANGED formManner

Means(p) == meant' = [at |-> p, missed |-> FALSE, reworded |-> FALSE]

\* pickLocationModeAuto, pickLocationModeManual.
PickMode(mode) ==
    /\ Acts
    /\ Renders([EmptyForm EXCEPT !.mode = mode, !.keep = form.keep, !.list = form.list])
    /\ Means(Nowhere)
    /\ UNCHANGED <<locating, reverses, calls, saved, savedIds, placing>>

\* requestLocation: the old position stays until there is a new one.
RequestLocation ==
    /\ Acts /\ form.mode = "AUTO" /\ form.geo # "loading" /\ locating < 2
    /\ Renders([form EXCEPT !.picked = 0, !.edit = FALSE, !.geo = "loading", !.line = NoLine])
    /\ locating' = locating + 1
    /\ UNCHANGED <<reverses, calls, saved, savedIds, placing, meant>>

\* A position arrives whatever the page shows by then, and its name is looked up.
PositionArrives(p) ==
    /\ locating > 0 /\ locating' = locating - 1
    /\ Renders([form EXCEPT !.coords = p, !.geo = "ok",
                            !.text = IF form.edit THEN form.text ELSE NoLine])
    /\ reverses' = reverses \cup {p}
    /\ Means(p)
    /\ UNCHANGED <<formManner, calls, saved, savedIds, placing, formActs>>

PositionFails ==
    /\ locating > 0 /\ locating' = locating - 1
    /\ Renders([form EXCEPT !.coords = Nowhere, !.geo = "failed", !.line = NoLine])
    /\ UNCHANGED <<formManner, reverses, calls, saved, savedIds, placing, meant, formActs>>

\* The name of place p arrives, or none does.
ReverseArrives(p, line) ==
    /\ p \in reverses /\ reverses' = reverses \ {p}
    /\ Renders([form EXCEPT !.line = line,
                            !.text = IF form.edit \/ line = NoLine THEN form.text ELSE line])
    /\ UNCHANGED <<formManner, locating, calls, saved, savedIds, placing, meant, formActs>>

\* A text that is not found leaves the position of the text before.
ForwardArrives(found, line) ==
    /\ forward # {}
    /\ forward' = {}
    /\ \E t \in forward : form' = IF found THEN [form EXCEPT !.coords = t, !.line = line]
                                  ELSE form
    /\ meant' = [meant EXCEPT !.missed = ~found /\ form.coords # Nowhere]
    /\ UNCHANGED <<formManner, locating, reverses, calls, saved, savedIds, placing, formActs>>

Type(t) ==
    /\ Acts /\ (form.mode = "MANUAL" \/ form.edit)
    /\ Renders([form EXCEPT !.text = t, !.picked = 0])
    /\ meant' = IF form.mode = "MANUAL" THEN [meant EXCEPT !.at = t]
                ELSE [meant EXCEPT !.reworded = TRUE]
    /\ UNCHANGED <<locating, reverses, calls, saved, savedIds, placing>>

ToggleEdit ==
    /\ Acts /\ form.mode = "AUTO" /\ form.geo = "ok" /\ form.coords # Nowhere
    /\ Renders([form EXCEPT !.edit = ~form.edit])
    /\ UNCHANGED <<locating, reverses, calls, saved, savedIds, placing, meant>>

-----------------------------------------------------------------------------
(* The address book. *)

\* listAddressesByPhone. A list that cannot be read is empty.
LoadArrives(list) ==
    /\ [kind |-> "load"] \in calls /\ calls' = calls \ {[kind |-> "load"]}
    /\ form' = [form EXCEPT !.list = list]
    /\ UNCHANGED <<formManner, locating, reverses, forward, saved, savedIds, placing, meant,
                   formActs>>

\* Mutant: the line that was found stays.
AppliedHalf(r) == [form EXCEPT !.mode = "AUTO", !.edit = FALSE, !.picked = r.id,
                               !.coords = r.at, !.geo = "ok", !.text = r.line]
Applied(r) == [form EXCEPT !.mode = "AUTO", !.edit = FALSE, !.picked = r.id,
                           !.coords = r.at, !.geo = "ok", !.text = r.line, !.line = r.line]

ApplySavedAddress(r) ==
    /\ Acts /\ r \in form.list
    /\ Renders(Applied(r))
    /\ meant' = [at |-> r.at, missed |-> FALSE, reworded |-> r.line \notin {r.at, Automatic}]
    /\ UNCHANGED <<locating, reverses, calls, saved, savedIds, placing>>

\* deleteCustomerAddress; a row that is gone already is an error the page ignores.
DeleteSavedAddress(r) ==
    /\ Acts /\ r \in form.list
    /\ saved' = {s \in saved : s.id # r.id}
    /\ calls' = IF saved' = saved THEN calls
                ELSE calls \cup {[kind |-> "deleted", id |-> r.id,
                                  picked |-> form.picked = r.id]}
    /\ UNCHANGED <<form, locating, reverses, forward, savedIds, placing, meant>>

\* Whether the row was picked is what the page knew when the customer tapped.
DeleteAnswered(c) ==
    /\ c \in calls /\ c.kind = "deleted" /\ calls' = calls \ {c}
    /\ form' = [form EXCEPT !.list = {s \in form.list : s.id # c.id},
                            !.picked = IF c.picked THEN 0 ELSE form.picked]
    /\ UNCHANGED <<formManner, locating, reverses, forward, saved, savedIds, placing, meant,
                   formActs>>

\* setDefaultCustomerAddress: one transaction, which answers with the list.
SetDefaultSavedAddress(r) ==
    /\ Acts /\ r \in form.list /\ r.id \in {s.id : s \in saved}
    /\ saved' = {[s EXCEPT !.default = s.id = r.id] : s \in saved}
    /\ calls' = calls \cup {[kind |-> "list", rows |-> saved']}
    /\ UNCHANGED <<form, locating, reverses, forward, savedIds, placing, meant>>

ListArrives(c) ==
    /\ c \in calls /\ c.kind = "list" /\ calls' = calls \ {c}
    /\ form' = [form EXCEPT !.list = c.rows]
    /\ UNCHANGED <<formManner, locating, reverses, forward, saved, savedIds, placing, meant,
                   formActs>>

ToggleKeep ==
    /\ Acts /\ form.mode = "AUTO" /\ form.geo = "ok" /\ form.coords # Nowhere
    /\ form.picked = 0
    /\ Renders([form EXCEPT !.keep = ~form.keep])
    /\ UNCHANGED <<locating, reverses, calls, saved, savedIds, placing, meant>>

-----------------------------------------------------------------------------
(* The order. *)

\* Mutant: a position is enough, were it the one that is being replaced.
AddressReadyAnyhow ==
    IF form.mode = "MANUAL" THEN form.text # NoLine ELSE form.geo \in {"ok", "loading"}
\* manualAddressOk, autoLocationOk.
AddressReady ==
    IF form.mode = "MANUAL" THEN form.text # NoLine
    ELSE form.coords # Nowhere /\ form.geo = "ok"

\* The line of the order, and that of the address kept from it.
FoundLine == IF form.line # NoLine THEN form.line
             ELSE IF form.text # NoLine THEN form.text ELSE Automatic
StreetLine == IF form.mode = "MANUAL" THEN form.text ELSE FoundLine

\* What placeOrder takes from the page, when it is tapped.
Body ==
    [line |-> StreetLine, kept |-> FoundLine, at |-> form.coords,
     manual |-> form.mode = "MANUAL" /\ form.coords = Nowhere,
     labels |-> {r.at : r \in {s \in form.list : s.id = form.picked}},
     stage |-> "sent", keep |-> form.keep, first |-> form.list = {}, meant |-> meant]

PlaceOrder ==
    /\ Acts /\ placing = NoBody /\ AddressReady
    /\ placing' = {Body}
    /\ UNCHANGED <<form, locating, reverses, forward, calls, saved, savedIds, meant>>

\* What createFromCart asks of an address.
Acceptable(b) == b.line # NoLine /\ (b.at # Nowhere \/ b.manual)

\* Mutant: the default before stays.
ClearDefaultsNot(rows, b) == rows
ClearDefaults(rows, b) ==
    IF b.first THEN {[s EXCEPT !.default = FALSE] : s \in rows} ELSE rows

\* Mutant: a place is saved again.
KnownNot(b) == FALSE
Known(b) == \E s \in saved : s.at = b.at

\* The order is answered; createCustomerAddress looks for the place and clears the default,
Answered(b) ==
    /\ b \in placing /\ b.stage = "sent" /\ Acceptable(b)
    /\ IF b.keep /\ b.at # Nowhere /\ ~Known(b)
       THEN saved' = ClearDefaults(saved, b) /\ placing' = {[b EXCEPT !.stage = "cleared"]}
       ELSE placing' = NoBody /\ UNCHANGED saved
    /\ UNCHANGED <<formManner, form, locating, reverses, forward, calls, savedIds, meant,
                   formActs>>

\* ... and writes the row.
Create(b) ==
    /\ b \in placing /\ b.stage = "cleared" /\ placing' = NoBody
    /\ savedIds < MaxSaved /\ savedIds' = savedIds + 1
    /\ saved' = saved \cup {[id |-> savedIds + 1, at |-> b.at, line |-> b.kept,
                             default |-> b.first]}
    /\ UNCHANGED <<formManner, form, locating, reverses, forward, calls, meant, formActs>>

\* It is refused, or its answer is lost.
NotAnswered ==
    /\ placing # NoBody /\ placing' = NoBody
    /\ UNCHANGED <<formManner, form, locating, reverses, forward, calls, saved, savedIds,
                   meant, formActs>>

AddressNext ==
    \/ \E mode \in {"AUTO", "MANUAL"} : PickMode(mode)
    \/ RequestLocation \/ PositionFails \/ ToggleEdit \/ ToggleKeep
    \/ PlaceOrder \/ NotAnswered
    \/ \E p \in Places : PositionArrives(p) \/ \E l \in {p, NoLine} : ReverseArrives(p, l)
    \/ \E found \in BOOLEAN, l \in forward \cup {NoLine} : ForwardArrives(found, l)
    \/ \E t \in Places \cup {NoLine} : Type(t)
    \/ \E list \in {saved, {}} : LoadArrives(list)
    \/ \E r \in form.list :
          ApplySavedAddress(r) \/ DeleteSavedAddress(r) \/ SetDefaultSavedAddress(r)
    \/ \E c \in calls : DeleteAnswered(c) \/ ListArrives(c)
    \/ \E b \in placing : Answered(b) \/ Create(b)

AddressSpec == AddressInit /\ [][AddressNext]_formVars

-----------------------------------------------------------------------------
(* Properties. *)

\* However late positions and names arrive, the page sends no order the server refuses for
\* its address.
AddressAccepted == \A b \in placing : Acceptable(b)

\* The coordinates, the line and the label of an order are of the place the customer chose,
\* if he waited for the answers; unless a typed text was not found, or he reworded a line.
CalmAddressAgrees ==
    \A b \in placing :
        formManner = "calm" /\ ~b.meant.missed =>
            /\ b.at \in {b.meant.at, Nowhere}
            /\ b.labels \subseteq {b.meant.at}
            /\ ~b.meant.reworded => b.line \in {b.meant.at, Automatic}

\* No place is saved twice. One address at most is the customer's default if he waited,
\* although the page takes an address for the first when it could not read the others.
BookSound ==
    /\ \A r, s \in saved : r.at = s.at => r = s
    /\ formManner = "calm" => \A r, s \in saved : r.default /\ s.default => r = s

\* Orders go where the customer wants them, and so do the addresses kept from them.
AddressesSound == AddressTypeOK /\ AddressAccepted /\ CalmAddressAgrees /\ BookSound
=============================================================================
