------------------------------- MODULE Keymap -------------------------------
(***************************************************************************)
(* The scan codes of the physical keys (session/src/keymap.rs), each with  *)
(* whether it is sent with the prefix of the extended keys.                *)
(***************************************************************************)
EXTENDS Naturals, Sequences

(* map_standard_key_code, by runs of keys with consecutive codes.          *)
Row(extended, first, keys) == [extended |-> extended, first |-> first, keys |-> keys]

StandardRows == {
  Row(FALSE, 1, <<"Escape", "Digit1", "Digit2", "Digit3", "Digit4", "Digit5", "Digit6", "Digit7", "Digit8",
    "Digit9", "Digit0", "Minus", "Equal", "Backspace", "Tab", "KeyQ", "KeyW", "KeyE", "KeyR", "KeyT", "KeyY",
    "KeyU", "KeyI", "KeyO", "KeyP", "BracketLeft", "BracketRight", "Enter", "ControlLeft", "KeyA", "KeyS",
    "KeyD", "KeyF", "KeyG", "KeyH", "KeyJ", "KeyK", "KeyL", "Semicolon", "Quote", "Backquote", "ShiftLeft",
    "Backslash", "KeyZ", "KeyX", "KeyC", "KeyV", "KeyB", "KeyN", "KeyM", "Comma", "Period", "Slash",
    "ShiftRight", "NumpadMultiply", "AltLeft", "Space", "CapsLock", "F1", "F2", "F3", "F4", "F5", "F6", "F7",
    "F8", "F9", "F10", "NumLock", "ScrollLock", "Numpad7", "Numpad8", "Numpad9", "NumpadSubtract", "Numpad4",
    "Numpad5", "Numpad6", "NumpadAdd", "Numpad1", "Numpad2", "Numpad3", "Numpad0", "NumpadDecimal">>),
  Row(FALSE, 86, <<"IntlBackslash", "F11", "F12", "NumpadEqual">>),
  Row(FALSE, 100, <<"F13", "F14", "F15", "F16", "F17", "F18", "F19", "F20", "F21", "F22", "F23">>),
  Row(FALSE, 112, <<"KanaMode", "Lang2", "Lang1", "IntlRo">>),
  Row(FALSE, 118, <<"F24", "Lang4", "Lang3", "Convert">>),
  Row(FALSE, 123, <<"NonConvert">>),
  Row(FALSE, 125, <<"IntlYen", "NumpadComma">>)}

ExtendedRows == {
  Row(TRUE, 8, <<"Undo">>), Row(TRUE, 10, <<"Paste">>), Row(TRUE, 16, <<"MediaTrackPrevious">>),
  Row(TRUE, 23, <<"Cut", "Copy", "MediaTrackNext">>), Row(TRUE, 28, <<"NumpadEnter", "ControlRight">>),
  Row(TRUE, 32, <<"AudioVolumeMute", "LaunchApp2", "MediaPlayPause">>), Row(TRUE, 36, <<"MediaStop">>),
  Row(TRUE, 44, <<"Eject">>), Row(TRUE, 46, <<"AudioVolumeDown">>), Row(TRUE, 48, <<"AudioVolumeUp">>),
  Row(TRUE, 50, <<"BrowserHome">>), Row(TRUE, 53, <<"NumpadDivide">>),
  Row(TRUE, 55, <<"PrintScreen", "AltRight">>), Row(TRUE, 59, <<"Help">>),
  Row(TRUE, 71, <<"Home", "ArrowUp", "PageUp">>), Row(TRUE, 75, <<"ArrowLeft">>),
  Row(TRUE, 77, <<"ArrowRight">>), Row(TRUE, 79, <<"End", "ArrowDown", "PageDown", "Insert", "Delete">>),
  Row(TRUE, 91, <<"SuperLeft", "SuperRight", "ContextMenu", "Power", "Sleep">>), Row(TRUE, 99, <<"WakeUp">>),
  Row(TRUE, 101, <<"BrowserSearch", "BrowserFavorites", "BrowserRefresh", "BrowserStop", "BrowserForward",
    "BrowserBack", "LaunchApp1", "LaunchMail", "MediaSelect">>)}

Entries == UNION {{[key |-> row.keys[n], code |-> <<row.extended, row.first + n - 1>>] : n \in DOMAIN row.keys} :
                    row \in StandardRows \cup ExtendedRows}

MapStandardKeyCode ==
  [key \in {entry.key : entry \in Entries} |-> (CHOOSE entry \in Entries : entry.key = key).code]
=============================================================================
