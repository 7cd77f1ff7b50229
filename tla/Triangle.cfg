SPECIFICATION PlayerGraphSpec
CONSTANT GAME_NODE_NUM = 6
INVARIANT TriangleLoses
