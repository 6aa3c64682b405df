--------------------------- MODULE ConnectionBar ---------------------------
(***************************************************************************)
(* The connection bar of a full-screen session window (session/src/bar.rs):*)
(* pinned, or sliding out when the pointer touches the top edge and away   *)
(* again when it has stayed off for a while. Each function is an action on *)
(* the bar's state; SessionWindow calls them.                              *)
(***************************************************************************)
CONSTANT Nothing   (* the pointer is over no part of the bar *)

VARIABLES
  pinned,     (* the bar stays                              *)
  revealed,   (* an unpinned bar is out                     *)
  hide_at,    (* the hide timer runs                        *)
  hover       (* the part the pointer is over, or Nothing   *)

barVars == <<pinned, revealed, hide_at, hover>>

Parts == {"Pin", "Restore", "Close", "Body"}

BarTypeOK ==
  /\ pinned \in BOOLEAN /\ revealed \in BOOLEAN /\ hide_at \in BOOLEAN
  /\ hover \in Parts \cup {Nothing}

New == pinned = TRUE /\ revealed = TRUE /\ hide_at = FALSE /\ hover = Nothing

hovered == hover # Nothing
is_shown == pinned \/ revealed

Reset ==
  /\ revealed' = TRUE /\ hide_at' = FALSE /\ hover' = Nothing
  /\ UNCHANGED pinned

(* The hide timer fires.                                                   *)
Tick ==
  /\ hide_at
  /\ hide_at' = FALSE
  /\ revealed' = (revealed /\ (pinned \/ hovered))
  /\ UNCHANGED <<pinned, hover>>

(* Whether a pointer over `part` of the bar's place is its business: it is *)
(* out, or comes out because the pointer is at the top edge.               *)
Reaches(edge) == is_shown \/ edge
Captures(part, edge) == Reaches(edge) /\ part \in Parts

PointerMoved(part, edge) ==
  /\ revealed' = (revealed \/ (Reaches(edge) /\ ~is_shown))
  /\ hover' = IF ~Reaches(edge) THEN hover ELSE IF part \in Parts THEN part ELSE Nothing
  /\ hide_at' = IF ~Reaches(edge) THEN hide_at ELSE part \notin Parts /\ (hide_at \/ ~pinned)
  /\ UNCHANGED pinned

PointerLeft ==
  /\ hover' = Nothing
  /\ hide_at' = (hide_at \/ ~pinned)
  /\ UNCHANGED <<pinned, revealed>>

(* A left click on the part the pointer is over: the pin is the bar's own. *)
ClickPin ==
  /\ hover = "Pin"
  /\ pinned' = ~pinned
  /\ hide_at' = ~pinned'
  /\ UNCHANGED <<revealed, hover>>
=============================================================================
