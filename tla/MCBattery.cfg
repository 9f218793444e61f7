\* Three games that share the mappers' globals, one state slot each.
SPECIFICATION Spec
CONSTANTS
  shantae = shantae
  mono = mono
  crystal = crystal
  Games <- MCGames
  CartType <- MCCartType
  Contents = {blank, image}
  Blank = blank
  Missing = Missing
  Short = Short
  Slots = {0}
  NoState = NoState
  NoGame = NoGame
INVARIANTS
  LossHasCause
PROPERTIES
  FileFollowsSession
  ImplementsStore
