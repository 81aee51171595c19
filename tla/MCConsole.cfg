SPECIFICATION Spec
CONSTANTS
  INPUT_BUF = 2
  CountMod = 4
  Readers = {r1, r2}
  Killable = {r2}
  MaxRead = 2
  Nobody = Nobody
  SerialBytes = {"d", "CR", "^D", "DEL", "^U"}
  Letters = {"d", "u", "enter", "kpenter", "bs"}
  Modifiers <- MCModifiers
  Extended = {"ctl", "kpenter"}
  Keymap <- MCKeymap
  SwapCase <- MCSwapCase
INVARIANTS IndicesOrdered NoLostLine ModifiersFollowKeys
 
CHECK_DEADLOCK FALSE
