----------------------------- MODULE MCPresent -----------------------------
(* Present for TLC: a desktop one pixel narrower than one window, as wide  *)
(* as another, and a minimized window.                                     *)
EXTENDS Present
MCWindows == {<<3, 1>>, <<2, 1>>, <<0, 0>>}
MCDesktops == {<<2, 1>>}
MCDialogSize == <<1, 1>>
=============================================================================
