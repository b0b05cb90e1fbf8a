------------------------------- MODULE MCMenus -------------------------------
(* Two lines of display are enough to make every menu scroll, two layouts and two *)
(* values to make a select go both ways.                                          *)
EXTENDS Menus
===============================================================================
